---- MODULE Spec2Model ----
(***************************************************************************)
(* The order lifecycle of the NgeBaju REST backend: the request handlers   *)
(* of src/controllers/orderController.js behind the middleware of          *)
(* src/routes/orderRoutes.js, running against the relational store.        *)
(*                                                                         *)
(* A request is a process: it arrives (Start...), and every further step   *)
(* is one round trip to the store (one `await supabase...`) followed by    *)
(* the handler's local code up to its next round trip or its response.     *)
(* The store executes each round trip atomically; nothing else is atomic.  *)
(***************************************************************************)
EXTENDS Integers, Sequences, FiniteSets, TLC

\* ------------------------------------------------------------------ bounds
NumReq == 2        \* request slots: requests that may be in flight together
MaxOrders == 1     \* order headers the store may come to hold
MaxItems == 2      \* line items in one createOrder body
MaxQty == 3        \* largest quantity a line item asks for
MaxStock == 5      \* initial general stock of product 1
MaxCart == 2       \* cart rows the store may come to hold
MaxUsers == 2      \* users that register may add to the store
MaxProducts == 3   \* products the store may come to hold

\* --------------------------------------------------------------- constants
Null == "null"

Req == 1..NumReq

Statuses ==
  {"pending", "processing", "shipped", "delivered",
   "completed", "cancelled", "returned", "refunded"}

\* the statuses a client may put into the body of PUT /orders/:id/status
StatusInputs == Statuses \cup {"bogus"}

\* product ids a client may name: the stored products and one that is absent
ProductInputs == {1, 2, 3}

\* size labels a client may name; Null is an absent (or empty) size field
SizeInputs == {Null, "M"}

\* the price field a client may add to a line item (the handler never reads it)
ClientPrices == {0, 1}

\* order ids a client may name in the path
OrderInputs == 1..(MaxOrders + 1)

\* the line items a client may send. A line item naming the absent product,
\* or a size row that does not exist, is rejected before its other fields
\* are read, so one such item of each kind is enough.
Item ==
  {it \in [product_id : ProductInputs, size : SizeInputs,
            quantity : 1..MaxQty, price : ClientPrices] :
     /\ it.product_id = 3 => it.size = Null /\ it.quantity = 1
     /\ it.product_id = 2 /\ it.size # Null => it.quantity = 1}

RECURSIVE SeqsUpTo(_, _)
SeqsUpTo(S, n) ==
  IF n = 0 THEN {<<>>}
  ELSE LET shorter == SeqsUpTo(S, n - 1)
       IN shorter \cup {Append(s, x) : s \in {t \in shorter : Len(t) = n - 1}, x \in S}

\* the bodies of POST /orders: every list of up to MaxItems line items, the
\* items of one body carrying the same client price
ItemLists ==
  {l \in SeqsUpTo(Item, MaxItems) :
     \A k \in 1..Len(l) : l[k].price = l[1].price}

\* the bodies tried where requests interleave: one unit of product 1, size M
SmallItemLists ==
  {l \in ItemLists : Len(l) = 1 /\ l[1].product_id = 1 /\ l[1].size # Null
                      /\ l[1].quantity = 1 /\ l[1].price = 0}

\* ------------------------------------------------------------------- state
VARIABLES
  users,          \* table users: user_id -> [role, email, username]
  products,       \* table products: product_id -> [price, stock]
  product_sizes,  \* table product_sizes: <<product_id, size>> -> stock
  orders,         \* table orders: order_id -> [user_id, total_price, status]
  order_items,    \* table order_items: rows [order_id, product_id, size, quantity, price]
  nextOrderId,    \* the serial behind orders.order_id
  cart_items,     \* table cart_items: rows [item_id, user_id, product_id, size, quantity]
  nextItemId,     \* the serial behind cart_items.item_id
  nextUserId,     \* the serial behind users.user_id
  categories,     \* table categories: the category ids stored
  product_category, \* column products.category_id: product_id -> category_id
  nextProductId,  \* the serial behind products.product_id
  reqs,           \* the requests in flight, one per slot
  hist            \* history: per order, the stock before it was created, and
                  \* whether another order's request has changed stock since

vars ==
  <<users, products, product_sizes, orders, order_items, nextOrderId,
    cart_items, nextItemId, nextUserId, categories, product_category,
    nextProductId, reqs, hist>>

catalogue == <<categories, product_category, nextProductId>>

accounts == <<users, nextUserId>>

carts == <<cart_items, nextItemId>>

store ==
  <<users, products, product_sizes, orders, order_items, nextOrderId,
    cart_items, nextItemId, nextUserId, categories, product_category,
    nextProductId>>

\* the store as it is when a request arrives (history only)
Snapshot ==
  [products |-> products, product_sizes |-> product_sizes,
   orders |-> orders, order_items |-> order_items, cart_items |-> cart_items,
   users |-> users]

NoSnapshot ==
  [products |-> <<>>, product_sizes |-> <<>>, orders |-> <<>>, order_items |-> <<>>,
   cart_items |-> <<>>, users |-> <<>>]

NoUser == [user_id |-> "", role |-> ""]
NoOrder == [order_id |-> 0, user_id |-> "", status |-> ""]
NoProduct == [price |-> 0, stock |-> 0]
NoItem == [product_id |-> 0, size |-> Null, quantity |-> 0]
NoCartItem == [item_id |-> 0, quantity |-> 0]
NoCartRow == [item_id |-> 0, product_id |-> 0, size |-> Null, stock |-> 0]

\* the Authorization header of a request: absent ("none"), not of the form
\* `Bearer <token>` ("nobearer"), or a bearer token that is no JWT
\* ("garbled"), a JWT with a wrong signature ("forged"), a JWT of this server
\* past its expiry ("expired"), or a JWT of this server still valid ("valid");
\* id and role are the user id and the role the token's payload carries
TokenKinds == {"none", "nobearer", "garbled", "forged", "expired", "valid"}

\* the user ids a token may carry: the stored users and one whose row is no
\* longer in the store
TokenSubjects == {"ani", "budi", "admin", "zed"}

\* the Authorization headers a client may send; a token of this server may
\* have been issued when its user had another role than now
Tokens ==
  {[kind |-> k, id |-> "", role |-> ""] : k \in {"none", "nobearer", "garbled"}}
    \cup [kind : {"forged", "expired", "valid"}, id : TokenSubjects,
          role : {"admin", "customer"}]

\* the routes behind authenticate
ProtectedOps ==
  {"createOrder", "updateOrderStatus", "cancelOrder", "getOrderById",
   "updateProduct", "addToCart", "getCartCheckout"}

\* the token generateToken signs for a user row: the payload carries the
\* user's id and role (and email)
generateToken(user) == [kind |-> "valid", id |-> user.user_id, role |-> user.role]

\* the body of PUT /products/:id as far as the handler's writes to products
\* and product_sizes read it: price, stock (<<>> when the field is absent,
\* <<n>> when it is n), sizes (a list of [size, stock]) and category_id; name
\* and description are valid, and there are no images
NoData == [price |-> 0, stock |-> <<>>, sizes |-> <<>>, category_id |-> 0]

\* the bodies tried where the catalogue's prices and stock matter: the
\* category is the one the stored products are in
ProductBodies ==
  [price : {-1, 0, 12}, stock : {<<>>, <<1>>},
   sizes : {<<>>, <<[size |-> "M", stock |-> 1]>>}, category_id : {1}]

\* the category ids a client may name: the stored categories and one that
\* is absent
CategoryInputs == {1, 2, 3}

\* the bodies of POST /products and PUT /products/:id tried where categories
\* matter
CategoryBodies ==
  [price : {12}, stock : {<<1>>},
   sizes : {<<>>, <<[size |-> "M", stock |-> 1]>>}, category_id : CategoryInputs]

\* the product ids named in the path of PUT /products/:id: one stored, one absent
ProductPathInputs == {1, 3}

\* the bodies of POST /orders tried along with product updates: one line item
\* of one unit
CatalogItemLists ==
  {l \in ItemLists : Len(l) = 1 /\ l[1].price = 0 /\ l[1].quantity = 1}

\* the bodies of POST /orders tried along with store failures: up to
\* MaxItems line items of one unit of product 1, with or without a size
FaultItemLists ==
  {l \in ItemLists :
     \A k \in 1..Len(l) :
       l[k].product_id = 1 /\ l[k].quantity = 1 /\ l[k].price = 0}

\* the bodies of POST /orders tried where two orders race for one stock row:
\* two units of a row that holds two
RaceItemLists ==
  {l \in ItemLists :
     /\ Len(l) = 1 /\ l[1].quantity = 2 /\ l[1].price = 0
     /\ \/ l[1].product_id = 1 /\ l[1].size # Null
        \/ l[1].product_id = 2 /\ l[1].size = Null}

\* the bodies of POST /cart: a product that is stored or absent, with or
\* without a size, one or two units
CartInputs ==
  {it \in [product_id : {1, 3}, size : SizeInputs, quantity : {1, 2}] :
     it.product_id = 3 => it.size = Null /\ it.quantity = 1}

\* the bodies of POST /cart tried along with the other cart routes: the size
\* row of product 1 and the general stock of product 2 hold two units each
CartOpsInputs ==
  {[product_id |-> 1, size |-> "M", quantity |-> n] : n \in {1, 2}}
    \cup {[product_id |-> 2, size |-> Null, quantity |-> n] : n \in {1, 2}}

\* the cart item ids a client may name in the path
CartItemInputs == 1..(MaxCart + 1)

\* the quantity field of PUT /cart/:id
QuantityInputs == {0, 1, 3}

\* the email and username fields of POST /auth/register. Emails and usernames
\* are opaque strings (the stored user u has email u and username u); "NEO"
\* is "neo" in capitals, "nomail" is no email address, "n!" no valid username
EmailInputs == {"ani", "neo", "NEO", "nomail"}

UsernameInputs == {"ani", "neo", "n!"}

\* the user ids named in the path of PUT /users/:id/role: stored users and
\* one that is absent
UserPathInputs == {"ani", "admin", "zed"}

\* the role field of PUT /users/:id/role
RoleInputs == {"admin", "customer", "owner"}

\* the response body of getOrderById when it is not a success
NoBody ==
  [order_id |-> 0, user_id |-> "", status |-> "", total_price |-> 0, items |-> <<>>]

Idle ==
  [pc |-> "idle", op |-> "", caller |-> "", token |-> generateToken(NoUser),
   user |-> NoUser,
   id |-> 0, status |-> "", items |-> <<>>, data |-> NoData,
   item |-> NoItem, existingItem |-> NoCartItem, cartItems |-> <<>>,
   cartItem |-> NoCartRow, quantity |-> 0, target |-> "", role |-> "",
   newProduct |-> 0,
   stockIssues |-> 0, email |-> "", username |-> "",
   i |-> 0, product |-> NoProduct, totalPrice |-> 0, verifiedItems |-> <<>>,
   newOrder |-> 0, order |-> NoOrder, orderItems |-> <<>>,
   code |-> 0, body |-> NoBody, failed |-> {}, failedAt |-> {},
   pre |-> NoSnapshot]

Init ==
  /\ users = [u \in {"ani", "budi", "admin"} |->
                [role |-> IF u = "admin" THEN "admin" ELSE "customer",
                 email |-> u, username |-> u]]
  /\ products = (1 :> [price |-> 10, stock |-> MaxStock]) @@
                (2 :> [price |-> 25, stock |-> 2])
  /\ product_sizes = (<<1, "M">> :> 2)
  /\ orders = <<>>
  /\ order_items = <<>>
  /\ nextOrderId = 1
  /\ cart_items = <<>>
  /\ nextItemId = 1
  /\ nextUserId = 1
  /\ categories = {1, 2}
  /\ product_category = (1 :> 1) @@ (2 :> 1)
  /\ nextProductId = 3
  /\ reqs = [r \in Req |-> Idle]
  /\ hist = [baseline |-> <<>>, disturbed |-> {}]

\* ------------------------------------------------------------- middleware

\* routes/orderRoutes.js: orderValidation
orderValidation(items) ==
  /\ Len(items) >= 1
  /\ \A k \in 1..Len(items) : items[k].product_id >= 1 /\ items[k].quantity >= 1

\* routes/orderRoutes.js: statusValidation
statusValidation(status) == status \in Statuses

\* routes/productRoutes.js: productValidation, on the fields of ProductBodies
productValidation(data) ==
  /\ data.price >= 0
  /\ \A k \in 1..Len(data.stock) : data.stock[k] >= 0
  /\ \A k \in 1..Len(data.sizes) : data.sizes[k].stock >= 0

\* routes/authRoutes.js: registerValidation, on email and username
registerValidation(email, username) == email # "nomail" /\ username # "n!"

\* registerValidation: .normalizeEmail() puts the address in lower case
normalizeEmail(email) == IF email = "NEO" THEN "neo" ELSE email

\* routes/cartRoutes.js: addToCartValidation
addToCartValidation(item) == item.product_id >= 1 /\ item.quantity >= 1

\* routes/userRoutes.js: roleValidation
roleValidation(role) == role \in {"admin", "customer"}

\* routes/cartRoutes.js: updateCartValidation
updateCartValidation(quantity) == quantity >= 1

authorize_AnyRole(roles, user) ==
  IF user = NoUser THEN 401 ELSE 0

\* middleware/roleMiddleware.js: authorize(roles), applied to req.user
authorize(roles, user) ==
  IF user = NoUser THEN 401
  ELSE IF roles # {} /\ user.role \notin roles THEN 403
  ELSE 0

Respond(q, code) == [q EXCEPT !.pc = "done", !.code = code]

\* the middleware chain of each route after authenticate, up to the handler's
\* first round trip to the store
Route(q) ==
  CASE q.op = "createOrder" ->
         IF ~orderValidation(q.items) THEN Respond(q, 400)
         ELSE [q EXCEPT !.pc = "co_product", !.i = 1]
    [] q.op = "updateOrderStatus" ->
         IF authorize({"admin"}, q.user) # 0
           THEN Respond(q, authorize({"admin"}, q.user))
         ELSE IF ~statusValidation(q.status) THEN Respond(q, 400)
         ELSE [q EXCEPT !.pc = "uos_check"]
    [] q.op = "cancelOrder" -> [q EXCEPT !.pc = "cancel_get"]
    [] q.op = "getOrderById" -> [q EXCEPT !.pc = "get_order"]
    [] q.op = "addToCart" ->
         IF ~addToCartValidation(q.item) THEN Respond(q, 400)
         ELSE [q EXCEPT !.pc = "cart_product"]
    [] q.op = "getCartCheckout" -> [q EXCEPT !.pc = "checkout_items"]
    [] q.op = "updateCartItem" ->
         IF ~updateCartValidation(q.quantity) THEN Respond(q, 400)
         ELSE [q EXCEPT !.pc = "uci_check"]
    [] q.op = "removeFromCart" -> [q EXCEPT !.pc = "rfc_check"]
    [] q.op = "clearCart" -> [q EXCEPT !.pc = "cc_delete"]
    [] q.op = "createProduct" ->
         IF authorize({"admin"}, q.user) # 0
           THEN Respond(q, authorize({"admin"}, q.user))
         ELSE IF ~productValidation(q.data) THEN Respond(q, 400)
         ELSE [q EXCEPT !.pc = "cp_category"]
    [] q.op = "deleteCategory" ->
         IF authorize({"admin"}, q.user) # 0
           THEN Respond(q, authorize({"admin"}, q.user))
         ELSE [q EXCEPT !.pc = "dc_check"]
    [] q.op = "updateUserRole" ->
         IF authorize({"admin"}, q.user) # 0
           THEN Respond(q, authorize({"admin"}, q.user))
         ELSE IF ~roleValidation(q.role) THEN Respond(q, 400)
         ELSE [q EXCEPT !.pc = "uur_check"]
    [] q.op = "updateProduct" ->
         IF authorize({"admin"}, q.user) # 0
           THEN Respond(q, authorize({"admin"}, q.user))
         ELSE IF ~productValidation(q.data) THEN Respond(q, 400)
         ELSE [q EXCEPT !.pc = "up_check"]

\* --------------------------------------------------------------- arrivals

\* the token that login hands to the stored user u
IssuedTo(u) == generateToken([user_id |-> u, role |-> users[u].role])

StartCreateOrder(r, snap, caller, items) ==
  /\ reqs[r].pc = "idle"
  /\ reqs' = [reqs EXCEPT ![r] =
       [Idle EXCEPT !.pc = "authenticate", !.op = "createOrder",
                    !.caller = caller, !.token = IssuedTo(caller), !.items = items, !.pre = snap]]
  /\ UNCHANGED <<store, hist>>

StartUpdateOrderStatus(r, snap, caller, id, status) ==
  /\ reqs[r].pc = "idle"
  /\ reqs' = [reqs EXCEPT ![r] =
       [Idle EXCEPT !.pc = "authenticate", !.op = "updateOrderStatus",
                    !.caller = caller, !.token = IssuedTo(caller), !.id = id, !.status = status,
                    !.pre = snap]]
  /\ UNCHANGED <<store, hist>>

StartCancelOrder(r, snap, caller, id) ==
  /\ reqs[r].pc = "idle"
  /\ reqs' = [reqs EXCEPT ![r] =
       [Idle EXCEPT !.pc = "authenticate", !.op = "cancelOrder",
                    !.caller = caller, !.token = IssuedTo(caller), !.id = id, !.pre = snap]]
  /\ UNCHANGED <<store, hist>>

StartGetOrderById(r, snap, caller, id) ==
  /\ reqs[r].pc = "idle"
  /\ reqs' = [reqs EXCEPT ![r] =
       [Idle EXCEPT !.pc = "authenticate", !.op = "getOrderById",
                    !.caller = caller, !.token = IssuedTo(caller),
                    !.id = id, !.pre = snap]]
  /\ UNCHANGED <<store, hist>>

StartUpdateProduct(r, snap, caller, id, data) ==
  /\ reqs[r].pc = "idle"
  /\ reqs' = [reqs EXCEPT ![r] =
       [Idle EXCEPT !.pc = "authenticate", !.op = "updateProduct",
                    !.caller = caller, !.token = IssuedTo(caller),
                    !.id = id, !.data = data, !.pre = snap]]
  /\ UNCHANGED <<store, hist>>

StartAddToCart(r, snap, caller, item) ==
  /\ reqs[r].pc = "idle"
  /\ reqs' = [reqs EXCEPT ![r] =
       [Idle EXCEPT !.pc = "authenticate", !.op = "addToCart",
                    !.caller = caller, !.token = IssuedTo(caller),
                    !.item = item, !.pre = snap]]
  /\ UNCHANGED <<store, hist>>

StartGetCartCheckout(r, snap, caller) ==
  /\ reqs[r].pc = "idle"
  /\ reqs' = [reqs EXCEPT ![r] =
       [Idle EXCEPT !.pc = "authenticate", !.op = "getCartCheckout",
                    !.caller = caller, !.token = IssuedTo(caller),
                    !.pre = snap]]
  /\ UNCHANGED <<store, hist>>

StartUpdateCartItem(r, snap, caller, id, quantity) ==
  /\ reqs[r].pc = "idle"
  /\ reqs' = [reqs EXCEPT ![r] =
       [Idle EXCEPT !.pc = "authenticate", !.op = "updateCartItem",
                    !.caller = caller, !.token = IssuedTo(caller),
                    !.id = id, !.quantity = quantity, !.pre = snap]]
  /\ UNCHANGED <<store, hist>>

StartRemoveFromCart(r, snap, caller, id) ==
  /\ reqs[r].pc = "idle"
  /\ reqs' = [reqs EXCEPT ![r] =
       [Idle EXCEPT !.pc = "authenticate", !.op = "removeFromCart",
                    !.caller = caller, !.token = IssuedTo(caller),
                    !.id = id, !.pre = snap]]
  /\ UNCHANGED <<store, hist>>

StartClearCart(r, snap, caller) ==
  /\ reqs[r].pc = "idle"
  /\ reqs' = [reqs EXCEPT ![r] =
       [Idle EXCEPT !.pc = "authenticate", !.op = "clearCart",
                    !.caller = caller, !.token = IssuedTo(caller),
                    !.pre = snap]]
  /\ UNCHANGED <<store, hist>>

StartCreateProduct(r, snap, caller, data) ==
  /\ reqs[r].pc = "idle"
  /\ reqs' = [reqs EXCEPT ![r] =
       [Idle EXCEPT !.pc = "authenticate", !.op = "createProduct",
                    !.caller = caller, !.token = IssuedTo(caller),
                    !.data = data, !.pre = snap]]
  /\ UNCHANGED <<store, hist>>

StartDeleteCategory(r, snap, caller, id) ==
  /\ reqs[r].pc = "idle"
  /\ reqs' = [reqs EXCEPT ![r] =
       [Idle EXCEPT !.pc = "authenticate", !.op = "deleteCategory",
                    !.caller = caller, !.token = IssuedTo(caller),
                    !.id = id, !.pre = snap]]
  /\ UNCHANGED <<store, hist>>

StartUpdateUserRole(r, snap, caller, target, role) ==
  /\ reqs[r].pc = "idle"
  /\ reqs' = [reqs EXCEPT ![r] =
       [Idle EXCEPT !.pc = "authenticate", !.op = "updateUserRole",
                    !.caller = caller, !.token = IssuedTo(caller),
                    !.target = target, !.role = role, !.pre = snap]]
  /\ UNCHANGED <<store, hist>>

\* POST /auth/register is not behind authenticate
StartRegister(r, snap, email, username) ==
  /\ reqs[r].pc = "idle"
  /\ reqs' = [reqs EXCEPT ![r] =
       [Idle EXCEPT !.pc = "reg_check", !.op = "register",
                    !.email = IF registerValidation(email, username)
                                THEN normalizeEmail(email) ELSE email,
                    !.username = username, !.pre = snap]]
  /\ UNCHANGED <<store, hist>>

\* a request to the route of `op` whose Authorization header is `token`; its
\* path and body are not read before authenticate has accepted the header
StartWithToken(r, snap, op, token) ==
  /\ reqs[r].pc = "idle"
  /\ reqs' = [reqs EXCEPT ![r] =
       [Idle EXCEPT !.pc = "authenticate", !.op = op,
                    !.caller = token.id, !.token = token, !.pre = snap]]
  /\ UNCHANGED <<store, hist>>

\* authenticate: the header is present and starts with 'Bearer '
HasBearer(token) == token.kind \notin {"none", "nobearer"}

verifyToken_IgnoresExpiry(token) ==
  IF token.kind \in {"valid", "expired"}
    THEN [ok |-> TRUE, id |-> token.id, role |-> token.role]
  ELSE [ok |-> FALSE, id |-> "", role |-> ""]

\* utils/jwtUtils.js verifyToken: the decoded payload of a token this server
\* signed and that has not expired; throws (ok = FALSE) for any other
verifyToken(token) ==
  IF token.kind = "valid" THEN [ok |-> TRUE, id |-> token.id, role |-> token.role]
  ELSE [ok |-> FALSE, id |-> "", role |-> ""]

authenticate_TrustsToken(r) ==
  /\ reqs[r].pc = "authenticate"
  /\ LET q == reqs[r]
         decoded == verifyToken(q.token)
     IN reqs' = [reqs EXCEPT ![r] =
          IF ~HasBearer(q.token) THEN Respond(q, 401)
          ELSE IF ~decoded.ok THEN Respond(q, 401)
          ELSE IF decoded.id \notin DOMAIN users THEN Respond(q, 401)
          ELSE Route([q EXCEPT !.user =
                 [user_id |-> decoded.id, role |-> decoded.role]])]
  /\ UNCHANGED <<store, hist>>

\* middleware authenticate: checks the header, verifies the token and reads
\* the row of users the token names into req.user; the role in the token's
\* payload is not read
authenticate(r) ==
  /\ reqs[r].pc = "authenticate"
  /\ LET q == reqs[r]
         decoded == verifyToken(q.token)
     IN reqs' = [reqs EXCEPT ![r] =
          IF ~HasBearer(q.token) THEN Respond(q, 401)
          ELSE IF ~decoded.ok THEN Respond(q, 401)
          ELSE IF decoded.id \notin DOMAIN users THEN Respond(q, 401)
          ELSE Route([q EXCEPT !.user =
                 [user_id |-> decoded.id, role |-> users[decoded.id].role]])]
  /\ UNCHANGED <<store, hist>>

\* ------------------------------------------------------------- createOrder

decrement_OneMore(stock, x) == stock - x - 1

increment_OneLess(stock, x) == stock + x - 1

\* the store functions behind supabase.rpc('decrement' | 'increment', {x})
decrement(stock, x) == stock - x

increment(stock, x) == stock + x

InsufficientStock_OffByOne(stock, quantity) == stock + 1 < quantity

\* createOrder: the availability check, `row.stock < item.quantity`
InsufficientStock(stock, quantity) == stock < quantity

Verified_ClientPrice(q, item, product) ==
  LET itemPrice == item.price * item.quantity
      pushed == [q EXCEPT
        !.totalPrice = q.totalPrice + itemPrice,
        !.verifiedItems = Append(q.verifiedItems,
           [product_id |-> item.product_id, size |-> item.size,
            quantity |-> item.quantity, price |-> item.price]),
        !.product = NoProduct]
  IN IF q.i = Len(q.items)
       THEN [pushed EXCEPT !.pc = "co_insert_order", !.i = 0]
       ELSE [pushed EXCEPT !.pc = "co_product", !.i = q.i + 1]

\* createOrder, end of one pass of the verification loop: the subtotal is
\* added, the verified item is pushed, and the loop goes on or ends
Verified(q, item, product) ==
  LET itemPrice == product.price * item.quantity
      pushed == [q EXCEPT
        !.totalPrice = q.totalPrice + itemPrice,
        !.verifiedItems = Append(q.verifiedItems,
           [product_id |-> item.product_id, size |-> item.size,
            quantity |-> item.quantity, price |-> product.price]),
        !.product = NoProduct]
  IN IF q.i = Len(q.items)
       THEN [pushed EXCEPT !.pc = "co_insert_order", !.i = 0]
       ELSE [pushed EXCEPT !.pc = "co_product", !.i = q.i + 1]

\* createOrder: select the product of line item i; check the general stock
createOrderProduct(r) ==
  /\ reqs[r].pc = "co_product"
  /\ LET q == reqs[r]
         item == q.items[q.i]
     IN reqs' = [reqs EXCEPT ![r] =
          IF item.product_id \notin DOMAIN products THEN Respond(q, 400)
          ELSE LET product == products[item.product_id]
               IN IF item.size # Null
                    THEN [q EXCEPT !.pc = "co_size", !.product = product]
                  ELSE IF InsufficientStock(product.stock, item.quantity)
                    THEN Respond(q, 400)
                  ELSE Verified(q, item, product)]
  /\ UNCHANGED <<store, hist>>

\* createOrder: select the size row of line item i; check its stock
createOrderSize(r) ==
  /\ reqs[r].pc = "co_size"
  /\ LET q == reqs[r]
         item == q.items[q.i]
         row == <<item.product_id, item.size>>
     IN reqs' = [reqs EXCEPT ![r] =
          IF row \notin DOMAIN product_sizes THEN Respond(q, 400)
          ELSE IF InsufficientStock(product_sizes[row], item.quantity)
            THEN Respond(q, 400)
          ELSE Verified(q, item, q.product)]
  /\ UNCHANGED <<store, hist>>

\* createOrder: insert the order header, the store having room for `cap`
\* order ids
InsertOrder(r, cap) ==
  /\ reqs[r].pc = "co_insert_order"
  /\ nextOrderId <= cap
  /\ LET q == reqs[r]
     IN /\ orders' = orders @@ (nextOrderId :>
             [user_id |-> q.user.user_id, total_price |-> q.totalPrice,
              status |-> "pending"])
        /\ nextOrderId' = nextOrderId + 1
        /\ hist' = [hist EXCEPT !.baseline = @ @@ (nextOrderId :>
             [products |-> q.pre.products, product_sizes |-> q.pre.product_sizes])]
        /\ reqs' = [reqs EXCEPT ![r] =
             [q EXCEPT !.pc = "co_insert_items", !.newOrder = nextOrderId]]
  /\ UNCHANGED <<catalogue, accounts, carts, products, product_sizes, order_items>>

\* createOrder: insert the order header
createOrderInsertOrder(r) == InsertOrder(r, MaxOrders)

\* createOrder: insert the order items
createOrderInsertItems(r) ==
  /\ reqs[r].pc = "co_insert_items"
  /\ LET q == reqs[r]
         orderItems == [k \in 1..Len(q.verifiedItems) |->
           [order_id |-> q.newOrder,
            product_id |-> q.verifiedItems[k].product_id,
            size |-> q.verifiedItems[k].size,
            quantity |-> q.verifiedItems[k].quantity,
            price |-> q.verifiedItems[k].price]]
     IN /\ order_items' = order_items \o orderItems
        /\ reqs' = [reqs EXCEPT ![r] = [q EXCEPT !.pc = "co_stock", !.i = 1]]
  /\ UNCHANGED <<catalogue, accounts, carts, products, product_sizes, orders, nextOrderId, hist>>

\* the stock of the row a line item names: the size row when the item has a
\* size, the product's general stock otherwise
StockOf(item) ==
  IF item.size # Null
    THEN IF <<item.product_id, item.size>> \in DOMAIN product_sizes
           THEN product_sizes[<<item.product_id, item.size>>] ELSE 0
    ELSE IF item.product_id \in DOMAIN products
           THEN products[item.product_id].stock ELSE 0

UpdateStock_FloorsAtZero(item, stock) ==
  IF item.size # Null
    THEN /\ product_sizes' =
              [row \in DOMAIN product_sizes |->
                 IF row = <<item.product_id, item.size>>
                   THEN (IF stock < 0 THEN 0 ELSE stock) ELSE product_sizes[row]]
         /\ UNCHANGED products
    ELSE /\ products' =
              [p \in DOMAIN products |->
                 IF p = item.product_id
                   THEN [products[p] EXCEPT !.stock = IF stock < 0 THEN 0 ELSE stock]
                   ELSE products[p]]
         /\ UNCHANGED product_sizes

\* update({stock}) on the row a line item names; no such row, no change
UpdateStock(item, stock) ==
  IF item.size # Null
    THEN /\ product_sizes' =
              [row \in DOMAIN product_sizes |->
                 IF row = <<item.product_id, item.size>>
                   THEN stock ELSE product_sizes[row]]
         /\ UNCHANGED products
    ELSE /\ products' =
              [p \in DOMAIN products |->
                 IF p = item.product_id
                   THEN [products[p] EXCEPT !.stock = stock] ELSE products[p]]
         /\ UNCHANGED product_sizes

\* history: a request working on order o changes stock
Disturb(o) ==
  hist' = [hist EXCEPT !.disturbed = @ \cup (DOMAIN orders \ {o})]

createOrderStock_ClearsCart(r) ==
  /\ reqs[r].pc = "co_stock"
  /\ LET q == reqs[r]
         item == q.verifiedItems[q.i]
     IN /\ UpdateStock(item, decrement(StockOf(item), item.quantity))
        /\ Disturb(q.newOrder)
        /\ cart_items' = SelectSeq(cart_items, LAMBDA row : row.user_id # q.user.user_id)
        /\ reqs' = [reqs EXCEPT ![r] =
             IF q.i = Len(q.verifiedItems) THEN Respond(q, 201)
             ELSE [q EXCEPT !.i = q.i + 1]]
  /\ UNCHANGED <<catalogue, accounts, nextItemId, orders, order_items, nextOrderId>>

\* createOrder: decrement the stock row of verified item i; answer after the last
createOrderStock(r) ==
  /\ reqs[r].pc = "co_stock"
  /\ LET q == reqs[r]
         item == q.verifiedItems[q.i]
     IN /\ UpdateStock(item, decrement(StockOf(item), item.quantity))
        /\ Disturb(q.newOrder)
        /\ reqs' = [reqs EXCEPT ![r] =
             IF q.i = Len(q.verifiedItems) THEN Respond(q, 201)
             ELSE [q EXCEPT !.i = q.i + 1]]
  /\ UNCHANGED <<catalogue, accounts, carts, orders, order_items, nextOrderId>>

\* ------------------------------------------------------- updateOrderStatus

validStatusTransitions_ShippedCancels ==
  [s \in Statuses |->
     CASE s = "pending" -> {"processing", "cancelled"}
       [] s = "processing" -> {"shipped", "cancelled"}
       [] s = "shipped" -> {"delivered", "returned", "cancelled"}
       [] s = "delivered" -> {"completed", "returned"}
       [] s = "returned" -> {"refunded"}
       [] s = "cancelled" -> {}
       [] s = "completed" -> {}
       [] s = "refunded" -> {}]

validStatusTransitions ==
  [s \in Statuses |->
     CASE s = "pending" -> {"processing", "cancelled"}
       [] s = "processing" -> {"shipped", "cancelled"}
       [] s = "shipped" -> {"delivered", "returned"}
       [] s = "delivered" -> {"completed", "returned"}
       [] s = "returned" -> {"refunded"}
       [] s = "cancelled" -> {}
       [] s = "completed" -> {}
       [] s = "refunded" -> {}]

\* select order_id, user_id, status of one order; .single() errors on no row
SelectOrder(id) ==
  IF id \in DOMAIN orders
    THEN [order_id |-> id, user_id |-> orders[id].user_id, status |-> orders[id].status]
    ELSE NoOrder

\* update({status}).eq('order_id', id)
UpdateStatus(id, status) ==
  orders' = [o \in DOMAIN orders |->
               IF o = id THEN [orders[o] EXCEPT !.status = status] ELSE orders[o]]

\* updateOrderStatus: select the order; validate the transition
updateOrderStatusCheck(r) ==
  /\ reqs[r].pc = "uos_check"
  /\ LET q == reqs[r]
         orderExists == SelectOrder(q.id)
     IN reqs' = [reqs EXCEPT ![r] =
          IF orderExists = NoOrder THEN Respond(q, 404)
          ELSE IF q.status \notin validStatusTransitions[orderExists.status]
            THEN Respond([q EXCEPT !.order = orderExists], 400)
          ELSE [q EXCEPT !.pc = "uos_update", !.order = orderExists]]
  /\ UNCHANGED <<store, hist>>

\* updateOrderStatus: write the new status
updateOrderStatusUpdate(r) ==
  /\ reqs[r].pc = "uos_update"
  /\ LET q == reqs[r]
     IN /\ UpdateStatus(q.id, q.status)
        /\ reqs' = [reqs EXCEPT ![r] =
             Respond(q, IF q.id \in DOMAIN orders THEN 200 ELSE 500)]
  /\ UNCHANGED <<catalogue, accounts, carts, products, product_sizes, order_items, nextOrderId, hist>>

\* ------------------------------------------------------------- cancelOrder

\* cancelOrder: the caller neither is an admin nor owns the order
NoAccess(user, order) == user.role # "admin" /\ order.user_id # user.user_id

Cancellable_AlsoShipped(status) ==
  status = "pending" \/ status = "processing" \/ status = "shipped"

\* cancelOrder: the statuses an order can be cancelled in
Cancellable(status) == status = "pending" \/ status = "processing"

\* cancelOrder: select the order; check ownership and status
cancelOrderGet(r) ==
  /\ reqs[r].pc = "cancel_get"
  /\ LET q == reqs[r]
         order == SelectOrder(q.id)
     IN reqs' = [reqs EXCEPT ![r] =
          IF order = NoOrder THEN Respond(q, 404)
          ELSE IF NoAccess(q.user, order)
            THEN Respond([q EXCEPT !.order = order], 403)
          ELSE IF ~Cancellable(order.status)
            THEN Respond([q EXCEPT !.order = order], 400)
          ELSE [q EXCEPT !.pc = "cancel_update", !.order = order]]
  /\ UNCHANGED <<store, hist>>

\* cancelOrder: write status cancelled
cancelOrderUpdate(r) ==
  /\ reqs[r].pc = "cancel_update"
  /\ LET q == reqs[r]
     IN /\ UpdateStatus(q.id, "cancelled")
        /\ reqs' = [reqs EXCEPT ![r] =
             IF q.id \in DOMAIN orders THEN [q EXCEPT !.pc = "cancel_items"]
             ELSE Respond(q, 500)]
  /\ UNCHANGED <<catalogue, accounts, carts, products, product_sizes, order_items, nextOrderId, hist>>

\* cancelOrder: select the order's items
cancelOrderItems(r) ==
  /\ reqs[r].pc = "cancel_items"
  /\ LET q == reqs[r]
         orderItems == SelectSeq(order_items, LAMBDA it : it.order_id = q.id)
     IN reqs' = [reqs EXCEPT ![r] =
          IF orderItems = <<>> THEN Respond(q, 200)
          ELSE [q EXCEPT !.pc = "cancel_stock", !.orderItems = orderItems, !.i = 1]]
  /\ UNCHANGED <<store, hist>>

\* cancelOrder: increment the stock row of order item i; answer after the last
cancelOrderStock(r) ==
  /\ reqs[r].pc = "cancel_stock"
  /\ LET q == reqs[r]
         item == q.orderItems[q.i]
     IN /\ UpdateStock(item, increment(StockOf(item), item.quantity))
        /\ Disturb(q.id)
        /\ reqs' = [reqs EXCEPT ![r] =
             IF q.i = Len(q.orderItems) THEN Respond(q, 200)
             ELSE [q EXCEPT !.i = q.i + 1]]
  /\ UNCHANGED <<catalogue, accounts, carts, orders, order_items, nextOrderId>>

\* ------------------------------------------------------------ getOrderById

Visible_Unscoped(user, id) == id \in DOMAIN orders

\* getOrderById: the row the query finds; `.eq('user_id', userId)` is added
\* to the query unless the caller is an admin
Visible(user, id) ==
  /\ id \in DOMAIN orders
  /\ user.role # "admin" => orders[id].user_id = user.user_id

\* getOrderById: select the order; .single() errors on no row
getOrderByIdOrder(r) ==
  /\ reqs[r].pc = "get_order"
  /\ LET q == reqs[r]
     IN reqs' = [reqs EXCEPT ![r] =
          IF ~Visible(q.user, q.id) THEN Respond(q, 404)
          ELSE [q EXCEPT !.pc = "get_items",
                         !.body = [order_id |-> q.id,
                                   user_id |-> orders[q.id].user_id,
                                   status |-> orders[q.id].status,
                                   total_price |-> orders[q.id].total_price,
                                   items |-> <<>>]]]
  /\ UNCHANGED <<store, hist>>

\* getOrderById: select the order's items; answer the order with its items
getOrderByIdItems(r) ==
  /\ reqs[r].pc = "get_items"
  /\ LET q == reqs[r]
         orderItems == SelectSeq(order_items, LAMBDA it : it.order_id = q.id)
     IN reqs' = [reqs EXCEPT ![r] =
          Respond([q EXCEPT !.body.items = orderItems], 200)]
  /\ UNCHANGED <<store, hist>>

\* ----------------------------------------------------------- updateProduct

\* updateProduct: select the product
updateProductCheck(r) ==
  /\ reqs[r].pc = "up_check"
  /\ LET q == reqs[r]
     IN reqs' = [reqs EXCEPT ![r] =
          IF q.id \notin DOMAIN products THEN Respond(q, 404)
          ELSE [q EXCEPT !.pc = "up_update"]]
  /\ UNCHANGED <<store, hist>>

\* updateProduct: the row after update(updateData); a price of 0 and an
\* absent stock are left out of updateData
updateData(row, data) ==
  [price |-> IF data.price # 0 THEN data.price ELSE row.price,
   stock |-> IF data.stock # <<>> THEN data.stock[1] ELSE row.stock]

\* updateProduct: the category column after update(updateData); a
\* category_id of 0 is left out of updateData
updateCategory(id, data) ==
  [p \in DOMAIN product_category |->
     IF p = id /\ data.category_id # 0 THEN data.category_id ELSE product_category[p]]

updateProductUpdate_Reprices(r) ==
  /\ reqs[r].pc = "up_update"
  /\ LET q == reqs[r]
     IN /\ products' = [p \in DOMAIN products |->
             IF p = q.id THEN updateData(products[p], q.data) ELSE products[p]]
        /\ order_items' = [k \in 1..Len(order_items) |->
             IF order_items[k].product_id = q.id
               THEN [order_items[k] EXCEPT
                       !.price = updateData(products[q.id], q.data).price]
               ELSE order_items[k]]
        /\ product_category' = updateCategory(q.id, q.data)
        /\ reqs' = [reqs EXCEPT ![r] =
             IF q.id \notin DOMAIN products THEN Respond(q, 500)
             ELSE IF q.data.sizes # <<>> THEN [q EXCEPT !.pc = "up_sizes_delete"]
             ELSE Respond(q, 200)]
  /\ UNCHANGED <<categories, nextProductId, accounts, carts, product_sizes, orders,
                 nextOrderId, hist>>

\* updateProduct: update the product's row; .single() errors on no row
updateProductUpdate(r) ==
  /\ reqs[r].pc = "up_update"
  /\ LET q == reqs[r]
     IN /\ products' = [p \in DOMAIN products |->
             IF p = q.id THEN updateData(products[p], q.data) ELSE products[p]]
        /\ product_category' = updateCategory(q.id, q.data)
        /\ reqs' = [reqs EXCEPT ![r] =
             IF q.id \notin DOMAIN products THEN Respond(q, 500)
             ELSE IF q.data.sizes # <<>> THEN [q EXCEPT !.pc = "up_sizes_delete"]
             ELSE Respond(q, 200)]
  /\ UNCHANGED <<categories, nextProductId, accounts, carts, product_sizes, orders,
                 order_items, nextOrderId, hist>>

\* updateProduct: delete the product's size rows
updateProductSizesDelete(r) ==
  /\ reqs[r].pc = "up_sizes_delete"
  /\ LET q == reqs[r]
         kept == {row \in DOMAIN product_sizes : row[1] # q.id}
     IN /\ product_sizes' = [row \in kept |-> product_sizes[row]]
        /\ reqs' = [reqs EXCEPT ![r] = [q EXCEPT !.pc = "up_sizes_insert"]]
  /\ UNCHANGED <<catalogue, accounts, carts, products, orders, order_items, nextOrderId, hist>>

\* updateProduct: insert the size rows of the body; answer
updateProductSizesInsert(r) ==
  /\ reqs[r].pc = "up_sizes_insert"
  /\ LET q == reqs[r]
         rows == {<<q.id, q.data.sizes[k].size>> : k \in 1..Len(q.data.sizes)}
     IN /\ product_sizes' =
             [row \in DOMAIN product_sizes \cup rows |->
                IF row \in DOMAIN product_sizes THEN product_sizes[row]
                ELSE q.data.sizes[CHOOSE k \in 1..Len(q.data.sizes) :
                                    q.data.sizes[k].size = row[2]].stock]
        /\ reqs' = [reqs EXCEPT ![r] = Respond(q, 200)]
  /\ UNCHANGED <<catalogue, accounts, carts, products, orders, order_items, nextOrderId, hist>>

\* ----------------------------------------------------------- createProduct

\* createProduct: select the category of the body
createProductCategory(r) ==
  /\ reqs[r].pc = "cp_category"
  /\ LET q == reqs[r]
     IN reqs' = [reqs EXCEPT ![r] =
          IF q.data.category_id \notin categories THEN Respond(q, 400)
          ELSE [q EXCEPT !.pc = "cp_insert"]]
  /\ UNCHANGED <<store, hist>>

\* createProduct: insert the product (the bodies tried carry a stock), the
\* store having room for MaxProducts product ids
createProductInsert(r) ==
  /\ reqs[r].pc = "cp_insert"
  /\ nextProductId <= MaxProducts
  /\ LET q == reqs[r]
     IN /\ products' = products @@ (nextProductId :>
             [price |-> q.data.price, stock |-> q.data.stock[1]])
        /\ product_category' = product_category @@ (nextProductId :> q.data.category_id)
        /\ nextProductId' = nextProductId + 1
        /\ reqs' = [reqs EXCEPT ![r] =
             [q EXCEPT !.newProduct = nextProductId,
                       !.pc = IF q.data.sizes # <<>> THEN "cp_sizes" ELSE "cp_fetch"]]
  /\ UNCHANGED <<categories, accounts, carts, product_sizes, orders, order_items,
                 nextOrderId, hist>>

\* createProduct: insert the size rows of the body
createProductSizes(r) ==
  /\ reqs[r].pc = "cp_sizes"
  /\ LET q == reqs[r]
         rows == {<<q.newProduct, q.data.sizes[k].size>> : k \in 1..Len(q.data.sizes)}
     IN /\ product_sizes' =
             [row \in DOMAIN product_sizes \cup rows |->
                IF row \in DOMAIN product_sizes THEN product_sizes[row]
                ELSE q.data.sizes[CHOOSE k \in 1..Len(q.data.sizes) :
                                    q.data.sizes[k].size = row[2]].stock]
        /\ reqs' = [reqs EXCEPT ![r] = [q EXCEPT !.pc = "cp_fetch"]]
  /\ UNCHANGED <<catalogue, accounts, carts, products, orders, order_items,
                 nextOrderId, hist>>

\* createProduct: select the new product with its category; answer
createProductFetch(r) ==
  /\ reqs[r].pc = "cp_fetch"
  /\ reqs' = [reqs EXCEPT ![r] = Respond(reqs[r], 201)]
  /\ UNCHANGED <<store, hist>>

\* ---------------------------------------------------------- deleteCategory

\* deleteCategory: select the category
deleteCategoryCheck(r) ==
  /\ reqs[r].pc = "dc_check"
  /\ LET q == reqs[r]
     IN reqs' = [reqs EXCEPT ![r] =
          IF q.id \notin categories THEN Respond(q, 404)
          ELSE [q EXCEPT !.pc = "dc_products"]]
  /\ UNCHANGED <<store, hist>>

\* deleteCategory: select a product of the category
deleteCategoryProducts(r) ==
  /\ reqs[r].pc = "dc_products"
  /\ LET q == reqs[r]
         productsUsingCategory ==
           {p \in DOMAIN product_category : product_category[p] = q.id}
     IN reqs' = [reqs EXCEPT ![r] =
          IF productsUsingCategory # {} THEN Respond(q, 400)
          ELSE [q EXCEPT !.pc = "dc_delete"]]
  /\ UNCHANGED <<store, hist>>

\* deleteCategory: delete the category; answer
deleteCategoryDelete(r) ==
  /\ reqs[r].pc = "dc_delete"
  /\ LET q == reqs[r]
     IN /\ categories' = categories \ {q.id}
        /\ reqs' = [reqs EXCEPT ![r] = Respond(q, 200)]
  /\ UNCHANGED <<product_category, nextProductId, accounts, carts, products,
                 product_sizes, orders, order_items, nextOrderId, hist>>

\* --------------------------------------------------------------- addToCart

\* the sum of price x quantity over order items or checkout items
RECURSIVE Subtotals(_)
Subtotals(items) ==
  IF items = <<>> THEN 0
  ELSE Head(items).price * Head(items).quantity + Subtotals(Tail(items))


\* addToCart: select the product; check the general stock
addToCartProduct(r) ==
  /\ reqs[r].pc = "cart_product"
  /\ LET q == reqs[r]
         item == q.item
     IN reqs' = [reqs EXCEPT ![r] =
          IF item.product_id \notin DOMAIN products THEN Respond(q, 404)
          ELSE LET product == products[item.product_id]
               IN IF item.size # Null
                    THEN [q EXCEPT !.pc = "cart_size", !.product = product]
                  ELSE IF product.stock < item.quantity THEN Respond(q, 400)
                  ELSE [q EXCEPT !.pc = "cart_existing", !.product = product]]
  /\ UNCHANGED <<store, hist>>

\* addToCart: select the size row; check its stock
addToCartSize(r) ==
  /\ reqs[r].pc = "cart_size"
  /\ LET q == reqs[r]
         row == <<q.item.product_id, q.item.size>>
     IN reqs' = [reqs EXCEPT ![r] =
          IF row \notin DOMAIN product_sizes THEN Respond(q, 404)
          ELSE IF product_sizes[row] < q.item.quantity THEN Respond(q, 400)
          ELSE [q EXCEPT !.pc = "cart_existing"]]
  /\ UNCHANGED <<store, hist>>

\* the cart rows that .eq('user_id', u).eq('product_id', p).eq('size', size || null)
\* finds: a comparison with null is true of no row
ExistingItems(u, item) ==
  SelectSeq(cart_items, LAMBDA row :
    /\ row.user_id = u
    /\ row.product_id = item.product_id
    /\ item.size # Null /\ row.size = item.size)

\* addToCart: select the cart row of the same product and size (.maybeSingle()
\* errors on several rows); check the general stock against the merged quantity
addToCartExisting(r) ==
  /\ reqs[r].pc = "cart_existing"
  /\ LET q == reqs[r]
         found == ExistingItems(q.user.user_id, q.item)
     IN reqs' = [reqs EXCEPT ![r] =
          IF Len(found) > 1 THEN Respond(q, 500)
          ELSE IF found = <<>> THEN [q EXCEPT !.pc = "cart_insert"]
          ELSE LET existingItem ==
                     [item_id |-> found[1].item_id, quantity |-> found[1].quantity]
                   newQuantity == existingItem.quantity + q.item.quantity
                   merged == [q EXCEPT !.existingItem = existingItem]
               IN IF q.item.size # Null
                    THEN [merged EXCEPT !.pc = "cart_recheck"]
                  ELSE IF q.product.stock < newQuantity THEN Respond(merged, 400)
                  ELSE [merged EXCEPT !.pc = "cart_update"]]
  /\ UNCHANGED <<store, hist>>

\* addToCart: select the size row again; check its stock against the merged
\* quantity (no row: sizeData is null and reading its stock throws)
addToCartRecheck(r) ==
  /\ reqs[r].pc = "cart_recheck"
  /\ LET q == reqs[r]
         row == <<q.item.product_id, q.item.size>>
         newQuantity == q.existingItem.quantity + q.item.quantity
     IN reqs' = [reqs EXCEPT ![r] =
          IF row \notin DOMAIN product_sizes THEN Respond(q, 500)
          ELSE IF product_sizes[row] < newQuantity THEN Respond(q, 400)
          ELSE [q EXCEPT !.pc = "cart_update"]]
  /\ UNCHANGED <<store, hist>>

\* addToCart: update the quantity of the existing row; .single() errors on no row
addToCartUpdate(r) ==
  /\ reqs[r].pc = "cart_update"
  /\ LET q == reqs[r]
         newQuantity == q.existingItem.quantity + q.item.quantity
         hit == \E k \in 1..Len(cart_items) :
                  cart_items[k].item_id = q.existingItem.item_id
     IN /\ cart_items' = [k \in 1..Len(cart_items) |->
             IF cart_items[k].item_id = q.existingItem.item_id
               THEN [cart_items[k] EXCEPT !.quantity = newQuantity]
               ELSE cart_items[k]]
        /\ reqs' = [reqs EXCEPT ![r] =
             IF hit THEN [q EXCEPT !.pc = "cart_count"] ELSE Respond(q, 500)]
  /\ UNCHANGED <<catalogue, accounts, products, product_sizes, orders, order_items,
                 nextOrderId, nextItemId, hist>>

\* addToCart: insert a new cart row, the store having room for MaxCart cart
\* item ids
addToCartInsert(r) ==
  /\ reqs[r].pc = "cart_insert"
  /\ nextItemId <= MaxCart
  /\ LET q == reqs[r]
     IN /\ cart_items' = Append(cart_items,
             [item_id |-> nextItemId, user_id |-> q.user.user_id,
              product_id |-> q.item.product_id, size |-> q.item.size,
              quantity |-> q.item.quantity])
        /\ nextItemId' = nextItemId + 1
        /\ reqs' = [reqs EXCEPT ![r] = [q EXCEPT !.pc = "cart_count"]]
  /\ UNCHANGED <<catalogue, accounts, products, product_sizes, orders, order_items,
                 nextOrderId, hist>>

\* addToCart: count the caller's cart rows; answer
addToCartCount(r) ==
  /\ reqs[r].pc = "cart_count"
  /\ reqs' = [reqs EXCEPT ![r] = Respond(reqs[r], 200)]
  /\ UNCHANGED <<store, hist>>

\* --------------------------------------------------------- getCartCheckout

\* getCartCheckout, after the stock of cart row i was looked at: the next row
\* with a size needs its size row read; rows without a size are checked
\* against the stock the first select brought; after the last row, answer
RECURSIVE Validate(_)
Validate(q) ==
  IF q.i > Len(q.cartItems)
    THEN IF q.stockIssues > 0 THEN Respond(q, 400)
         ELSE Respond([q EXCEPT !.totalPrice = Subtotals(q.cartItems)], 200)
  ELSE LET item == q.cartItems[q.i]
       IN IF item.size # Null THEN [q EXCEPT !.pc = "checkout_size"]
          ELSE Validate([q EXCEPT
                 !.i = q.i + 1,
                 !.stockIssues = IF item.stock < item.quantity THEN @ + 1 ELSE @])

\* getCartCheckout: select the caller's cart rows with their products
getCartCheckoutItems(r) ==
  /\ reqs[r].pc = "checkout_items"
  /\ LET q == reqs[r]
         mine == SelectSeq(cart_items, LAMBDA row : row.user_id = q.user.user_id)
         cartItems == [k \in 1..Len(mine) |->
           [product_id |-> mine[k].product_id, size |-> mine[k].size,
            quantity |-> mine[k].quantity,
            price |-> products[mine[k].product_id].price,
            stock |-> products[mine[k].product_id].stock]]
     IN reqs' = [reqs EXCEPT ![r] =
          IF cartItems = <<>> THEN Respond(q, 400)
          ELSE Validate([q EXCEPT !.cartItems = cartItems, !.i = 1])]
  /\ UNCHANGED <<store, hist>>

\* getCartCheckout: select the size row of cart row i; an error or no row is
\* no stock issue
getCartCheckoutSize(r) ==
  /\ reqs[r].pc = "checkout_size"
  /\ LET q == reqs[r]
         item == q.cartItems[q.i]
         row == <<item.product_id, item.size>>
         short == row \in DOMAIN product_sizes /\ product_sizes[row] < item.quantity
     IN reqs' = [reqs EXCEPT ![r] =
          Validate([q EXCEPT !.i = q.i + 1,
                             !.stockIssues = IF short THEN @ + 1 ELSE @])]
  /\ UNCHANGED <<store, hist>>

\* ---------------------------------- updateCartItem, removeFromCart, clearCart

CartItemOf_AnyUser(u, id) ==
  SelectSeq(cart_items, LAMBDA row : row.item_id = id)

\* the cart rows that .eq('item_id', id).eq('user_id', userId) finds
CartItemOf(u, id) ==
  SelectSeq(cart_items, LAMBDA row : row.item_id = id /\ row.user_id = u)

\* updateCartItem: select the caller's cart row with its product; check the
\* general stock when the row has no size
updateCartItemCheck(r) ==
  /\ reqs[r].pc = "uci_check"
  /\ LET q == reqs[r]
         found == CartItemOf(q.user.user_id, q.id)
     IN reqs' = [reqs EXCEPT ![r] =
          IF found = <<>> THEN Respond(q, 404)
          ELSE LET cartItem ==
                     [item_id |-> found[1].item_id, product_id |-> found[1].product_id,
                      size |-> found[1].size,
                      stock |-> products[found[1].product_id].stock]
                   got == [q EXCEPT !.cartItem = cartItem]
               IN IF cartItem.size # Null THEN [got EXCEPT !.pc = "uci_size"]
                  ELSE IF cartItem.stock < q.quantity THEN Respond(got, 400)
                  ELSE [got EXCEPT !.pc = "uci_update"]]
  /\ UNCHANGED <<store, hist>>

\* updateCartItem: select the size row; check its stock
updateCartItemSize(r) ==
  /\ reqs[r].pc = "uci_size"
  /\ LET q == reqs[r]
         row == <<q.cartItem.product_id, q.cartItem.size>>
     IN reqs' = [reqs EXCEPT ![r] =
          IF row \notin DOMAIN product_sizes THEN Respond(q, 404)
          ELSE IF product_sizes[row] < q.quantity THEN Respond(q, 400)
          ELSE [q EXCEPT !.pc = "uci_update"]]
  /\ UNCHANGED <<store, hist>>

\* updateCartItem: update({quantity}).eq('item_id', id); .single() errors on
\* no row
updateCartItemUpdate(r) ==
  /\ reqs[r].pc = "uci_update"
  /\ LET q == reqs[r]
         hit == \E k \in 1..Len(cart_items) : cart_items[k].item_id = q.id
     IN /\ cart_items' = [k \in 1..Len(cart_items) |->
             IF cart_items[k].item_id = q.id
               THEN [cart_items[k] EXCEPT !.quantity = q.quantity]
               ELSE cart_items[k]]
        /\ reqs' = [reqs EXCEPT ![r] = Respond(q, IF hit THEN 200 ELSE 500)]
  /\ UNCHANGED <<catalogue, accounts, products, product_sizes, orders, order_items,
                 nextOrderId, nextItemId, hist>>

\* removeFromCart: select the caller's cart row
removeFromCartCheck(r) ==
  /\ reqs[r].pc = "rfc_check"
  /\ LET q == reqs[r]
     IN reqs' = [reqs EXCEPT ![r] =
          IF CartItemOf(q.user.user_id, q.id) = <<>> THEN Respond(q, 404)
          ELSE [q EXCEPT !.pc = "rfc_delete"]]
  /\ UNCHANGED <<store, hist>>

\* removeFromCart: delete().eq('item_id', id)
removeFromCartDelete(r) ==
  /\ reqs[r].pc = "rfc_delete"
  /\ LET q == reqs[r]
     IN /\ cart_items' = SelectSeq(cart_items, LAMBDA row : row.item_id # q.id)
        /\ reqs' = [reqs EXCEPT ![r] = [q EXCEPT !.pc = "rfc_count"]]
  /\ UNCHANGED <<catalogue, accounts, products, product_sizes, orders, order_items,
                 nextOrderId, nextItemId, hist>>

\* removeFromCart: count the caller's cart rows; answer
removeFromCartCount(r) ==
  /\ reqs[r].pc = "rfc_count"
  /\ reqs' = [reqs EXCEPT ![r] = Respond(reqs[r], 200)]
  /\ UNCHANGED <<store, hist>>

\* clearCart: delete().eq('user_id', userId); answer
clearCart(r) ==
  /\ reqs[r].pc = "cc_delete"
  /\ LET q == reqs[r]
     IN /\ cart_items' = SelectSeq(cart_items, LAMBDA row : row.user_id # q.user.user_id)
        /\ reqs' = [reqs EXCEPT ![r] = Respond(q, 200)]
  /\ UNCHANGED <<catalogue, accounts, products, product_sizes, orders, order_items,
                 nextOrderId, nextItemId, hist>>

\* ---------------------------------------------------------- updateUserRole

\* updateUserRole: select the user of the path; refuse the caller's own id
updateUserRoleCheck(r) ==
  /\ reqs[r].pc = "uur_check"
  /\ LET q == reqs[r]
     IN reqs' = [reqs EXCEPT ![r] =
          IF q.target \notin DOMAIN users THEN Respond(q, 404)
          ELSE IF q.target = q.user.user_id THEN Respond(q, 400)
          ELSE [q EXCEPT !.pc = "uur_update"]]
  /\ UNCHANGED <<store, hist>>

\* updateUserRole: update({role}).eq('user_id', id); .single() errors on no row
updateUserRoleUpdate(r) ==
  /\ reqs[r].pc = "uur_update"
  /\ LET q == reqs[r]
     IN /\ users' = [u \in DOMAIN users |->
             IF u = q.target THEN [users[u] EXCEPT !.role = q.role] ELSE users[u]]
        /\ reqs' = [reqs EXCEPT ![r] =
             Respond(q, IF q.target \in DOMAIN users THEN 200 ELSE 500)]
  /\ UNCHANGED <<catalogue, nextUserId, carts, products, product_sizes, orders, order_items,
                 nextOrderId, hist>>

\* ---------------------------------------------------------------- register

\* register: the users that .or(`email.eq.${email},username.eq.${username}`) finds
existingUser(email, username) ==
  {u \in DOMAIN users : users[u].email = email \/ users[u].username = username}

\* register: check the validation result; select a user with the same email
\* or username
registerCheck(r) ==
  /\ reqs[r].pc = "reg_check"
  /\ LET q == reqs[r]
     IN reqs' = [reqs EXCEPT ![r] =
          IF ~registerValidation(q.email, q.username) THEN Respond(q, 400)
          ELSE IF existingUser(q.email, q.username) # {} THEN Respond(q, 400)
          ELSE [q EXCEPT !.pc = "reg_insert"]]
  /\ UNCHANGED <<store, hist>>

\* register: insert the user with role customer; answer with a token
registerInsert(r) ==
  /\ reqs[r].pc = "reg_insert"
  /\ nextUserId <= MaxUsers
  /\ LET q == reqs[r]
     IN /\ users' = users @@ (ToString(nextUserId) :>
             [role |-> "customer", email |-> q.email, username |-> q.username])
        /\ nextUserId' = nextUserId + 1
        /\ reqs' = [reqs EXCEPT ![r] =
             Respond([q EXCEPT !.token = generateToken(
                        [user_id |-> ToString(nextUserId), role |-> "customer"])], 201)]
  /\ UNCHANGED <<catalogue, products, product_sizes, orders, order_items, nextOrderId,
                 carts, hist>>

\* ----------------------------------------------------------- store failures

\* the round trip the request was about to make failed: the store changed
\* nothing and returned an error
Failed(q) == [q EXCEPT !.failed = @ \cup {q.pc}]

\* authenticate: the select of the user returns an error
authenticateFails(r) ==
  /\ reqs[r].pc = "authenticate"
  /\ HasBearer(reqs[r].token) /\ verifyToken(reqs[r].token).ok
  /\ reqs' = [reqs EXCEPT ![r] = Respond(Failed(reqs[r]), 401)]
  /\ UNCHANGED <<store, hist>>

\* the round trip of pass q.i of a loop failed (history: failedAt keeps the pass)
FailedAt(q) == [Failed(q) EXCEPT !.failedAt = @ \cup {q.i}]

createOrderFails_RollsBack(r) ==
  LET q == reqs[r]
  IN \/ /\ q.pc \in {"co_product", "co_size"}
        /\ reqs' = [reqs EXCEPT ![r] = Respond(Failed(q), 400)]
        /\ UNCHANGED <<store, hist>>
     \/ /\ q.pc = "co_insert_order"
        /\ reqs' = [reqs EXCEPT ![r] = Respond(Failed(q), 500)]
        /\ UNCHANGED <<store, hist>>
     \/ /\ q.pc = "co_insert_items"
        /\ reqs' = [reqs EXCEPT ![r] = [Failed(q) EXCEPT !.pc = "co_rollback"]]
        /\ UNCHANGED <<store, hist>>
     \/ /\ q.pc = "co_stock"
        /\ orders' = [o \in DOMAIN orders \ {q.newOrder} |-> orders[o]]
        /\ order_items' = SelectSeq(order_items, LAMBDA it : it.order_id # q.newOrder)
        /\ reqs' = [reqs EXCEPT ![r] = Respond(FailedAt(q), 500)]
        /\ UNCHANGED <<catalogue, accounts, carts, products, product_sizes, nextOrderId, hist>>

\* createOrder: a round trip returns an error. The product and size selects
\* answer 400, the header insert 500; a failed items insert goes on to delete
\* the header; the error of a stock update is not looked at
createOrderFails(r) ==
  LET q == reqs[r]
  IN /\ \/ /\ q.pc \in {"co_product", "co_size"}
           /\ reqs' = [reqs EXCEPT ![r] = Respond(Failed(q), 400)]
        \/ /\ q.pc = "co_insert_order"
           /\ reqs' = [reqs EXCEPT ![r] = Respond(Failed(q), 500)]
        \/ /\ q.pc = "co_insert_items"
           /\ reqs' = [reqs EXCEPT ![r] = [Failed(q) EXCEPT !.pc = "co_rollback"]]
        \/ /\ q.pc = "co_stock"
           /\ reqs' = [reqs EXCEPT ![r] =
                IF q.i = Len(q.verifiedItems) THEN Respond(FailedAt(q), 201)
                ELSE [FailedAt(q) EXCEPT !.i = q.i + 1]]
     /\ UNCHANGED <<store, hist>>

createOrderRollback_KeepsHeader(r) ==
  /\ reqs[r].pc = "co_rollback"
  /\ reqs' = [reqs EXCEPT ![r] = Respond(reqs[r], 500)]
  /\ UNCHANGED <<store, hist>>

\* createOrder, the items insert having failed: delete the order header; answer
createOrderRollback(r) ==
  /\ reqs[r].pc = "co_rollback"
  /\ LET q == reqs[r]
     IN /\ orders' = [o \in DOMAIN orders \ {q.newOrder} |-> orders[o]]
        /\ reqs' = [reqs EXCEPT ![r] = Respond(q, 500)]
  /\ UNCHANGED <<catalogue, accounts, carts, products, product_sizes, order_items,
                 nextOrderId, hist>>

\* createOrder, the items insert having failed: the delete of the header
\* returns an error, which is not looked at
createOrderRollbackFails(r) ==
  /\ reqs[r].pc = "co_rollback"
  /\ reqs' = [reqs EXCEPT ![r] = Respond(Failed(reqs[r]), 500)]
  /\ UNCHANGED <<store, hist>>

\* updateOrderStatus: a round trip returns an error
updateOrderStatusFails(r) ==
  LET q == reqs[r]
  IN /\ \/ /\ q.pc = "uos_check"
           /\ reqs' = [reqs EXCEPT ![r] = Respond(Failed(q), 404)]
        \/ /\ q.pc = "uos_update"
           /\ reqs' = [reqs EXCEPT ![r] = Respond(Failed(q), 500)]
     /\ UNCHANGED <<store, hist>>

cancelOrderFails_Reverts(r) ==
  LET q == reqs[r]
  IN \/ /\ q.pc = "cancel_get"
        /\ reqs' = [reqs EXCEPT ![r] = Respond(Failed(q), 404)]
        /\ UNCHANGED <<store, hist>>
     \/ /\ q.pc = "cancel_update"
        /\ reqs' = [reqs EXCEPT ![r] = Respond(Failed(q), 500)]
        /\ UNCHANGED <<store, hist>>
     \/ /\ q.pc \in {"cancel_items", "cancel_stock"}
        /\ UpdateStatus(q.id, q.order.status)
        /\ reqs' = [reqs EXCEPT ![r] = Respond(FailedAt(q), 500)]
        /\ UNCHANGED <<catalogue, accounts, carts, products, product_sizes, order_items,
                       nextOrderId, hist>>

\* cancelOrder: a round trip returns an error. The order select answers 404,
\* the status update 500; a failed items select skips the restore loop; the
\* error of a stock update is not looked at
cancelOrderFails(r) ==
  LET q == reqs[r]
  IN /\ \/ /\ q.pc = "cancel_get"
           /\ reqs' = [reqs EXCEPT ![r] = Respond(Failed(q), 404)]
        \/ /\ q.pc = "cancel_update"
           /\ reqs' = [reqs EXCEPT ![r] = Respond(Failed(q), 500)]
        \/ /\ q.pc = "cancel_items"
           /\ reqs' = [reqs EXCEPT ![r] = Respond(Failed(q), 200)]
        \/ /\ q.pc = "cancel_stock"
           /\ reqs' = [reqs EXCEPT ![r] =
                IF q.i = Len(q.orderItems) THEN Respond(FailedAt(q), 200)
                ELSE [FailedAt(q) EXCEPT !.i = q.i + 1]]
     /\ UNCHANGED <<store, hist>>

\* getOrderById: a round trip returns an error other than 'no row'
getOrderByIdFails(r) ==
  /\ reqs[r].pc \in {"get_order", "get_items"}
  /\ reqs' = [reqs EXCEPT ![r] =
       Respond([Failed(reqs[r]) EXCEPT !.body = NoBody], 500)]
  /\ UNCHANGED <<store, hist>>

\* ---------------------------------------------------------------- answers

\* the response leaves; the slot is free again
Retire(r) ==
  /\ reqs[r].pc = "done"
  /\ reqs' = [reqs EXCEPT ![r] = Idle]
  /\ UNCHANGED <<store, hist>>

\* ---------------------------------------------------------- specifications

Step(r) ==
  \/ authenticate(r)
  \/ createOrderProduct(r)
  \/ createOrderSize(r)
  \/ createOrderInsertOrder(r)
  \/ createOrderInsertItems(r)
  \/ createOrderStock(r)
  \/ updateOrderStatusCheck(r)
  \/ updateOrderStatusUpdate(r)
  \/ cancelOrderGet(r)
  \/ cancelOrderUpdate(r)
  \/ cancelOrderItems(r)
  \/ cancelOrderStock(r)
  \/ getOrderByIdOrder(r)
  \/ getOrderByIdItems(r)
  \/ Retire(r)

Arrive(r, snap, lists) ==
  \/ \E caller \in DOMAIN users, items \in lists :
       StartCreateOrder(r, snap, caller, items)
  \/ \E caller \in DOMAIN users, id \in OrderInputs, status \in StatusInputs :
       StartUpdateOrderStatus(r, snap, caller, id, status)
  \/ \E caller \in DOMAIN users, id \in OrderInputs :
       StartCancelOrder(r, snap, caller, id)
  \/ \E caller \in DOMAIN users, id \in OrderInputs :
       StartGetOrderById(r, snap, caller, id)

\* requests handled one after another: a request arrives when none is in flight
NextSeq ==
  \/ (\A r \in Req : reqs[r].pc = "idle") /\ Arrive(1, Snapshot, ItemLists)
  \/ Step(1)

SpecSeq == Init /\ [][NextSeq]_vars

\* the steps of addToCart and getCartCheckout
StepCart(r) ==
  \/ addToCartProduct(r)
  \/ addToCartSize(r)
  \/ addToCartExisting(r)
  \/ addToCartRecheck(r)
  \/ addToCartUpdate(r)
  \/ addToCartInsert(r)
  \/ addToCartCount(r)
  \/ getCartCheckoutItems(r)
  \/ getCartCheckoutSize(r)

\* the steps of updateProduct
StepProduct(r) ==
  \/ updateProductCheck(r)
  \/ updateProductUpdate(r)
  \/ updateProductSizesDelete(r)
  \/ updateProductSizesInsert(r)

\* requests handled one after another, the catalogue changing between orders
NextCatalog ==
  \/ /\ \A r \in Req : reqs[r].pc = "idle"
     /\ \/ \E caller \in DOMAIN users, items \in CatalogItemLists :
             StartCreateOrder(1, Snapshot, caller, items)
        \/ \E caller \in {"ani", "admin"}, id \in ProductPathInputs, data \in ProductBodies :
             StartUpdateProduct(1, Snapshot, caller, id, data)
        \/ \E id \in OrderInputs, status \in StatusInputs :
             StartUpdateOrderStatus(1, Snapshot, "admin", id, status)
        \/ \E caller \in DOMAIN users, id \in OrderInputs :
             StartCancelOrder(1, Snapshot, caller, id)
        \/ \E id \in OrderInputs : StartGetOrderById(1, Snapshot, "admin", id)
  \/ Step(1)
  \/ StepProduct(1)

SpecCatalog == Init /\ [][NextCatalog]_vars

\* requests handled one after another: carts are filled and previewed, and
\* orders are placed
NextCart ==
  \/ /\ \A r \in Req : reqs[r].pc = "idle"
     /\ \/ \E caller \in {"ani", "budi"}, item \in CartInputs :
             StartAddToCart(1, Snapshot, caller, item)
        \/ \E caller \in {"ani", "budi"} : StartGetCartCheckout(1, Snapshot, caller)
        \/ \E caller \in {"ani", "budi"}, items \in CatalogItemLists :
             StartCreateOrder(1, Snapshot, caller, items)
        \/ \E caller \in {"ani", "budi"}, id \in OrderInputs :
             StartCancelOrder(1, Snapshot, caller, id)
  \/ createOrderProduct(1)
  \/ createOrderSize(1)
  \/ createOrderInsertOrder(1)
  \/ createOrderInsertItems(1)
  \/ createOrderStock(1)
  \/ cancelOrderGet(1)
  \/ cancelOrderUpdate(1)
  \/ cancelOrderItems(1)
  \/ cancelOrderStock(1)
  \/ authenticate(1)
  \/ Retire(1)
  \/ StepCart(1)

SpecCart == Init /\ [][NextCart]_vars

\* the steps of addToCart
StepAddToCart(r) ==
  \/ addToCartProduct(r)
  \/ addToCartSize(r)
  \/ addToCartExisting(r)
  \/ addToCartRecheck(r)
  \/ addToCartUpdate(r)
  \/ addToCartInsert(r)
  \/ addToCartCount(r)

\* the steps of updateCartItem, removeFromCart and clearCart
StepCartItem(r) ==
  \/ updateCartItemCheck(r)
  \/ updateCartItemSize(r)
  \/ updateCartItemUpdate(r)
  \/ removeFromCartCheck(r)
  \/ removeFromCartDelete(r)
  \/ removeFromCartCount(r)
  \/ clearCart(r)

\* requests handled one after another: two users fill, change and empty
\* their carts
NextCartOps ==
  \/ /\ \A r \in Req : reqs[r].pc = "idle"
     /\ \/ \E caller \in {"ani", "budi"}, item \in CartOpsInputs :
             StartAddToCart(1, Snapshot, caller, item)
        \/ \E caller \in {"ani", "budi"}, id \in CartItemInputs,
              quantity \in QuantityInputs :
             StartUpdateCartItem(1, Snapshot, caller, id, quantity)
        \/ \E caller \in {"ani", "budi"}, id \in CartItemInputs :
             StartRemoveFromCart(1, Snapshot, caller, id)
        \/ \E caller \in {"ani", "budi"} : StartClearCart(1, Snapshot, caller)
  \/ authenticate(1)
  \/ StepAddToCart(1)
  \/ StepCartItem(1)
  \/ Retire(1)

SpecCartOps == Init /\ [][NextCartOps]_vars

\* addToCart requests of one user in flight together, their round trips
\* interleaved
NextCartRace ==
  \E r \in Req :
    \/ \E item \in CartOpsInputs : StartAddToCart(r, Snapshot, "ani", item)
    \/ authenticate(r)
    \/ StepAddToCart(r)
    \/ Retire(r)

SpecCartRace == Init /\ [][NextCartRace]_vars

\* the outcomes of a round trip that fails
StepFails(r) ==
  \/ authenticateFails(r)
  \/ createOrderFails(r)
  \/ createOrderRollback(r)
  \/ createOrderRollbackFails(r)
  \/ updateOrderStatusFails(r)
  \/ cancelOrderFails(r)
  \/ getOrderByIdFails(r)

\* requests handled one after another, any round trip to the store failing
\* or succeeding
NextFault ==
  \/ /\ \A r \in Req : reqs[r].pc = "idle"
     /\ \/ \E caller \in {"ani", "budi"}, items \in FaultItemLists :
             StartCreateOrder(1, Snapshot, caller, items)
        \/ \E id \in OrderInputs, status \in {"processing", "shipped", "cancelled"} :
             StartUpdateOrderStatus(1, Snapshot, "admin", id, status)
        \/ \E caller \in DOMAIN users, id \in OrderInputs :
             StartCancelOrder(1, Snapshot, caller, id)
        \/ \E caller \in DOMAIN users, id \in OrderInputs :
             StartGetOrderById(1, Snapshot, caller, id)
  \/ Step(1)
  \/ StepFails(1)

SpecFault == Init /\ [][NextFault]_vars

\* createOrder requests in flight together, racing for a stock row; the
\* store has room for an order of each
NextRace ==
  \E r \in Req :
    \/ \E caller \in {"ani", "budi"}, items \in RaceItemLists :
         StartCreateOrder(r, Snapshot, caller, items)
    \/ authenticate(r)
    \/ createOrderProduct(r)
    \/ createOrderSize(r)
    \/ InsertOrder(r, NumReq)
    \/ createOrderInsertItems(r)
    \/ createOrderStock(r)
    \/ Retire(r)

SpecRace == Init /\ [][NextRace]_vars

\* one order is placed and cancelOrder requests for it, of its owner and of
\* the admin, are in flight together, their round trips interleaved
NextCancelRace ==
  \E r \in Req :
    \/ \E items \in SmallItemLists : StartCreateOrder(r, Snapshot, "ani", items)
    \/ \E caller \in {"ani", "admin"} : StartCancelOrder(r, Snapshot, caller, 1)
    \/ authenticate(r)
    \/ createOrderProduct(r)
    \/ createOrderSize(r)
    \/ createOrderInsertOrder(r)
    \/ createOrderInsertItems(r)
    \/ createOrderStock(r)
    \/ cancelOrderGet(r)
    \/ cancelOrderUpdate(r)
    \/ cancelOrderItems(r)
    \/ cancelOrderStock(r)
    \/ Retire(r)

SpecCancelRace == Init /\ [][NextCancelRace]_vars

\* register requests in flight together, their round trips interleaved
NextUsers ==
  \E r \in Req :
    \/ \E email \in EmailInputs, username \in UsernameInputs :
         StartRegister(r, Snapshot, email, username)
    \/ registerCheck(r)
    \/ registerInsert(r)
    \/ Retire(r)

SpecUsers == Init /\ [][NextUsers]_vars

\* the steps of createProduct and deleteCategory
StepCategory(r) ==
  \/ createProductCategory(r)
  \/ createProductInsert(r)
  \/ createProductSizes(r)
  \/ createProductFetch(r)
  \/ deleteCategoryCheck(r)
  \/ deleteCategoryProducts(r)
  \/ deleteCategoryDelete(r)

\* the admin's requests that create and update products and delete
\* categories, in flight together, their round trips interleaved
NextCategories ==
  \E r \in Req :
    \/ \E data \in CategoryBodies : StartCreateProduct(r, NoSnapshot, "admin", data)
    \/ \E id \in ProductPathInputs, data \in CategoryBodies :
         StartUpdateProduct(r, NoSnapshot, "admin", id, data)
    \/ \E id \in CategoryInputs : StartDeleteCategory(r, NoSnapshot, "admin", id)
    \/ authenticate(r)
    \/ StepProduct(r)
    \/ StepCategory(r)
    \/ Retire(r)

SpecCategories == Init /\ [][NextCategories]_vars

\* updateUserRole requests in flight together, their round trips interleaved
NextRoles ==
  \E r \in Req :
    \/ \E caller \in DOMAIN users, target \in UserPathInputs, role \in RoleInputs :
         StartUpdateUserRole(r, Snapshot, caller, target, role)
    \/ authenticate(r)
    \/ updateUserRoleCheck(r)
    \/ updateUserRoleUpdate(r)
    \/ Retire(r)

SpecRoles == Init /\ [][NextRoles]_vars

\* the routes with authorize(['admin']) after authenticate, the users route
\* among them
AdminGated == {"updateOrderStatus", "updateProduct", "updateUserRole"}

\* requests handled one after another: roles are changed, and requests come
\* to the admin-gated routes with tokens issued before or after the change
NextRolesSeq ==
  \/ /\ \A r \in Req : reqs[r].pc = "idle"
     /\ \/ \E caller \in DOMAIN users, target \in UserPathInputs, role \in RoleInputs :
             StartUpdateUserRole(1, Snapshot, caller, target, role)
        \/ \E op \in AdminGated, token \in Tokens :
             StartWithToken(1, Snapshot, op, token)
  \/ authenticate(1)
  \/ updateUserRoleCheck(1)
  \/ updateUserRoleUpdate(1)
  \/ Retire(1)

SpecRolesSeq == Init /\ [][NextRolesSeq]_vars

\* requests handled one after another, with any Authorization header on any
\* protected route, and one body for each route
NextAuth ==
  \/ /\ \A r \in Req : reqs[r].pc = "idle"
     /\ \/ \E op \in ProtectedOps, token \in Tokens :
             StartWithToken(1, Snapshot, op, token)
        \/ \E caller \in DOMAIN users, items \in SmallItemLists :
             StartCreateOrder(1, Snapshot, caller, items)
        \/ \E caller \in DOMAIN users :
             StartUpdateOrderStatus(1, Snapshot, caller, 1, "processing")
        \/ \E caller \in DOMAIN users : StartCancelOrder(1, Snapshot, caller, 1)
        \/ \E caller \in DOMAIN users : StartGetOrderById(1, Snapshot, caller, 1)
        \/ \E caller \in DOMAIN users :
             StartUpdateProduct(1, Snapshot, caller, 1,
               [price |-> 12, stock |-> <<>>, category_id |-> 1,
                sizes |-> <<[size |-> "M", stock |-> 1]>>])
        \/ \E caller \in DOMAIN users :
             StartAddToCart(1, Snapshot, caller,
               [product_id |-> 1, size |-> "M", quantity |-> 1])
        \/ \E caller \in DOMAIN users : StartGetCartCheckout(1, Snapshot, caller)
  \/ Step(1)
  \/ StepProduct(1)
  \/ StepCart(1)

SpecAuth == Init /\ [][NextAuth]_vars

\* requests in flight together, their round trips interleaved
Next ==
  \E r \in Req :
    \/ Arrive(r, NoSnapshot, SmallItemLists)
    \/ Step(r)

Spec == Init /\ [][Next]_vars

\* ================================================================ claims

\* the request in slot r has been answered, and was a call of op
Answered(r, op) == reqs[r].pc = "done" /\ reqs[r].op = op

\* the order items of one order
ItemsOf(id) == SelectSeq(order_items, LAMBDA it : it.order_id = id)

\* the units that line items ask of one stock row: the size row <<p, size>>,
\* or with size = Null the general stock of product p
RECURSIVE Units(_, _, _)
Units(items, p, size) ==
  IF items = <<>> THEN 0
  ELSE (IF Head(items).product_id = p /\ Head(items).size = size
          THEN Head(items).quantity ELSE 0) + Units(Tail(items), p, size)

\* every stock row is what it was in snapshot `pre`
StockAsIn(pre) ==
  /\ \A p \in DOMAIN products : products[p].stock = pre.products[p].stock
  /\ product_sizes = pre.product_sizes

\* orders, order items and stock rows are what they were in snapshot `pre`
StoreAsIn(pre) ==
  /\ orders = pre.orders
  /\ order_items = pre.order_items
  /\ StockAsIn(pre)

\* the transition table as the specification states it
TableTargets(s) ==
  CASE s = "pending" -> {"processing", "cancelled"}
    [] s = "processing" -> {"shipped", "cancelled"}
    [] s = "shipped" -> {"delivered", "returned"}
    [] s = "delivered" -> {"completed", "returned"}
    [] s = "returned" -> {"refunded"}
    [] s \in {"cancelled", "completed", "refunded"} -> {}

\* C1: updateOrderStatus by an admin on an existing order with status s and a
\* requested status t among the eight answers 200 and leaves the order with
\* status t exactly when t is in the table's set of s; for every other pair
\* it answers 400 and the persisted status stays s.
C1_TransitionTable ==
  \A r \in Req :
    LET q == reqs[r]
    IN (Answered(r, "updateOrderStatus") /\ q.user.role = "admin"
          /\ q.status \in Statuses /\ q.id \in DOMAIN q.pre.orders) =>
         LET s == q.pre.orders[q.id].status
         IN IF q.status \in TableTargets(s)
              THEN q.code = 200 /\ orders[q.id].status = q.status
              ELSE q.code = 400 /\ orders[q.id].status = s

\* C1 witness: an order that was moved on to returned is refused cancelled
C1_Witness ==
  \E r \in Req :
    /\ Answered(r, "updateOrderStatus")
    /\ reqs[r].id \in DOMAIN reqs[r].pre.orders
    /\ reqs[r].pre.orders[reqs[r].id].status = "returned"
    /\ reqs[r].status = "cancelled"
    /\ reqs[r].code = 400

\* C2: cancelOrder by the order's owner or by an admin answers 200 and sets
\* the status to cancelled exactly when the order is pending or processing;
\* in every other status it answers 400 and changes neither the order's
\* status nor any stock row.
C2_CancelOnlyPendingOrProcessing ==
  \A r \in Req :
    LET q == reqs[r]
    IN (Answered(r, "cancelOrder") /\ q.id \in DOMAIN q.pre.orders
          /\ (q.user.role = "admin"
                \/ q.pre.orders[q.id].user_id = q.user.user_id)) =>
         IF q.pre.orders[q.id].status \in {"pending", "processing"}
           THEN q.code = 200 /\ orders[q.id].status = "cancelled"
           ELSE q.code = 400 /\ orders = q.pre.orders /\ StockAsIn(q.pre)

\* C2 witness: the owner, a customer, is refused the cancelling of a shipped order
C2_Witness ==
  \E r \in Req :
    /\ Answered(r, "cancelOrder")
    /\ reqs[r].id \in DOMAIN reqs[r].pre.orders
    /\ reqs[r].user.role = "customer"
    /\ reqs[r].pre.orders[reqs[r].id].user_id = reqs[r].user.user_id
    /\ reqs[r].pre.orders[reqs[r].id].status = "shipped"
    /\ reqs[r].code = 400

\* the stock rows are those of snapshot `pre` with the units of the order's
\* line items added back
Released(pre, id) ==
  /\ \A p \in DOMAIN products :
       products[p].stock = pre.products[p].stock + Units(ItemsOf(id), p, Null)
  /\ \A row \in DOMAIN product_sizes :
       product_sizes[row] = pre.product_sizes[row] + Units(ItemsOf(id), row[1], row[2])

\* C3: whenever a request has changed an order's status to cancelled, through
\* cancelOrder or through updateOrderStatus with target cancelled, every
\* stock row has been incremented by the quantities of the order's line
\* items that name it.
C3_CancelledReleasesStock ==
  \A r \in Req :
    LET q == reqs[r]
    IN ((Answered(r, "cancelOrder")
           \/ (Answered(r, "updateOrderStatus") /\ q.status = "cancelled"))
          /\ q.code = 200) =>
         Released(q.pre, q.id)

\* C4: a createOrder answered 201 followed by a cancelOrder of that order
\* answered 200, no other request having changed stock in between, leaves
\* every stock row at the value it had before the order was created.
C4_ReserveReleaseRoundTrip ==
  \A r \in Req :
    LET q == reqs[r]
    IN (Answered(r, "cancelOrder") /\ q.code = 200
          /\ q.id \notin hist.disturbed) =>
         StockAsIn(hist.baseline[q.id])

\* C4 witness: an order of a general and a per-size line item is cancelled
\* and the stock its creation took is back
C4_Witness ==
  \E r \in Req :
    /\ Answered(r, "cancelOrder")
    /\ reqs[r].code = 200
    /\ reqs[r].id \notin hist.disturbed
    /\ Units(ItemsOf(reqs[r].id), 1, Null) > 0
    /\ Units(ItemsOf(reqs[r].id), 1, "M") > 0
    /\ ~StockAsIn(reqs[r].pre)
    /\ StockAsIn(hist.baseline[reqs[r].id])

\* C5: in every reachable state every stock count, general and per-size, is
\* greater than or equal to zero.
C5_StockNeverNegative ==
  /\ \A p \in DOMAIN products : products[p].stock >= 0
  /\ \A row \in DOMAIN product_sizes : product_sizes[row] >= 0

\* in snapshot `pre` the stock row a line item names holds fewer units than
\* the item asks for
AsksTooMuch(item, pre) ==
  /\ item.product_id \in DOMAIN pre.products
  /\ IF item.size # Null
       THEN /\ <<item.product_id, item.size>> \in DOMAIN pre.product_sizes
            /\ item.quantity > pre.product_sizes[<<item.product_id, item.size>>]
       ELSE item.quantity > pre.products[item.product_id].stock

\* C6: a createOrder request one of whose line items asks for more than the
\* current stock of its stock row persists no order header and no order
\* item and changes no stock row, at any of its steps, and is answered 400,
\* also when earlier line items of the request passed their check.
C6_InsufficientStockPersistsNothing ==
  \A r \in Req :
    LET q == reqs[r]
    IN (q.op = "createOrder" /\ q.pc # "idle"
          /\ \E k \in 1..Len(q.items) : AsksTooMuch(q.items[k], q.pre)) =>
         /\ StoreAsIn(q.pre)
         /\ q.pc = "done" => q.code = 400

\* C6 witness: the first line item passed its check, the second asked too much
C6_Witness ==
  \E r \in Req :
    /\ Answered(r, "createOrder")
    /\ reqs[r].code = 400
    /\ Len(reqs[r].items) = 2
    /\ Len(reqs[r].verifiedItems) = 1
    /\ ~AsksTooMuch(reqs[r].items[1], reqs[r].pre)
    /\ AsksTooMuch(reqs[r].items[2], reqs[r].pre)

\* the sum of (price of the product in snapshot `pre`) x quantity over line items
RECURSIVE StorePriceTotal(_, _)
StorePriceTotal(items, pre) ==
  IF items = <<>> THEN 0
  ELSE pre.products[Head(items).product_id].price * Head(items).quantity
         + StorePriceTotal(Tail(items), pre)

\* C7: the total_price that createOrder persists and returns equals the sum
\* over the line items of the product's stored price times the quantity,
\* whatever price field the client sent, and equals the sum of price times
\* quantity over the order items persisted for the order.
C7_TotalFromStorePrices ==
  \A r \in Req :
    LET q == reqs[r]
    IN (Answered(r, "createOrder") /\ q.code = 201) =>
         /\ q.totalPrice = StorePriceTotal(q.items, q.pre)
         /\ orders[q.newOrder].total_price = StorePriceTotal(q.items, q.pre)
         /\ Subtotals(ItemsOf(q.newOrder)) = StorePriceTotal(q.items, q.pre)

\* C7 witness: an order of two products of different prices, the client
\* having sent a price of its own with each line item
C7_Witness ==
  \E r \in Req :
    /\ Answered(r, "createOrder")
    /\ reqs[r].code = 201
    /\ Len(reqs[r].items) = 2
    /\ reqs[r].items[1].product_id = 1
    /\ reqs[r].items[2].product_id = 2
    /\ reqs[r].items[1].price = 1
    /\ reqs[r].totalPrice = 10 * reqs[r].items[1].quantity
                              + 25 * reqs[r].items[2].quantity

\* C8: requests handled one after another, a createOrder of one line item
\* for quantity q against a general stock row holding n units is answered
\* 201 and leaves the row at n - q when q <= n, and is answered 400 and
\* leaves the row unchanged when q > n.
C8_SequentialCheckThenDecrement ==
  \A r \in Req :
    LET q == reqs[r]
    IN (Answered(r, "createOrder") /\ Len(q.items) = 1
          /\ q.items[1].size = Null
          /\ q.items[1].product_id \in DOMAIN q.pre.products) =>
         LET p == q.items[1].product_id
             n == q.pre.products[p].stock
         IN IF q.items[1].quantity <= n
              THEN q.code = 201 /\ products[p].stock = n - q.items[1].quantity
              ELSE q.code = 400 /\ products[p].stock = n

\* C8 witness: general stock 5; a first order of 3 was created (stock 2), a
\* second order of 3 is refused and the stock stays 2
C8_Witness ==
  \E r \in Req :
    /\ 1 \in DOMAIN orders
    /\ hist.baseline[1].products[1].stock = 5
    /\ ItemsOf(1) = <<[order_id |-> 1, product_id |-> 1, size |-> Null,
                       quantity |-> 3, price |-> 10]>>
    /\ orders[1].status = "pending"
    /\ Answered(r, "createOrder")
    /\ Len(reqs[r].items) = 1
    /\ reqs[r].items[1].product_id = 1
    /\ reqs[r].items[1].size = Null
    /\ reqs[r].items[1].quantity = 3
    /\ reqs[r].pre.products[1].stock = 2
    /\ reqs[r].code = 400
    /\ products[1].stock = 2

\* C9: every order starts in status pending, and each change of an order's
\* persisted status is a transition of the table, under every interleaving
\* of the requests; so a cancelled, completed or refunded order never
\* changes status again.
C9_StatusChangesFollowTable ==
  [][\A o \in DOMAIN orders' :
       IF o \in DOMAIN orders
         THEN \/ orders'[o].status = orders[o].status
              \/ orders'[o].status \in TableTargets(orders[o].status)
         ELSE orders'[o].status = "pending"]_vars

\* C10: a request of a caller who is not an admin changes the status of an
\* order only as cancelOrder on an order the caller owns, from pending or
\* processing to cancelled; updateOrderStatus by such a caller is answered
\* 403, and so is cancelOrder on another user's order, both with orders,
\* order items and stock unchanged.
C10_NonAdminOnlyCancelsOwn ==
  \A r \in Req :
    LET q == reqs[r]
    IN (q.pc # "idle" /\ users[q.caller].role # "admin") =>
         /\ \A o \in DOMAIN q.pre.orders :
              orders[o].status # q.pre.orders[o].status =>
                /\ q.op = "cancelOrder" /\ q.id = o
                /\ q.pre.orders[o].user_id = q.caller
                /\ q.pre.orders[o].status \in {"pending", "processing"}
                /\ orders[o].status = "cancelled"
         /\ Answered(r, "updateOrderStatus") =>
              q.code = 403 /\ StoreAsIn(q.pre)
         /\ (Answered(r, "cancelOrder") /\ q.id \in DOMAIN q.pre.orders
               /\ q.pre.orders[q.id].user_id # q.caller) =>
              q.code = 403 /\ StoreAsIn(q.pre)

\* C10 witness: a customer is refused the cancelling of another customer's
\* pending order
C10_Witness ==
  \E r \in Req :
    /\ Answered(r, "cancelOrder")
    /\ reqs[r].caller = "budi"
    /\ reqs[r].id \in DOMAIN orders
    /\ orders[reqs[r].id].user_id = "ani"
    /\ orders[reqs[r].id].status = "pending"
    /\ reqs[r].code = 403

\* C11: getOrderById by a caller who is not an admin, for an order owned by
\* another user, answers 404 with no order data, the very response it gives
\* for an order id that does not exist (never 403, never the order); an admin
\* is answered 200 with any existing order and its items.
C11_OthersOrderLooksAbsent ==
  \A r \in Req :
    LET q == reqs[r]
    IN (Answered(r, "getOrderById") /\ q.user # NoUser) =>
         /\ q.id \notin DOMAIN q.pre.orders => q.code = 404 /\ q.body = NoBody
         /\ (q.user.role # "admin" /\ q.id \in DOMAIN q.pre.orders
               /\ q.pre.orders[q.id].user_id # q.user.user_id) =>
              q.code = 404 /\ q.body = NoBody
         /\ (q.user.role = "admin" /\ q.id \in DOMAIN q.pre.orders) =>
              /\ q.code = 200
              /\ q.body.order_id = q.id
              /\ q.body.user_id = q.pre.orders[q.id].user_id
              /\ q.body.status = q.pre.orders[q.id].status
              /\ q.body.total_price = q.pre.orders[q.id].total_price
              /\ q.body.items = ItemsOf(q.id)

\* C11 witness: a customer asks for another customer's order, which holds
\* items, and is answered 404 without data
C11_Witness ==
  \E r \in Req :
    /\ Answered(r, "getOrderById")
    /\ reqs[r].user.user_id = "budi"
    /\ reqs[r].id \in DOMAIN orders
    /\ orders[reqs[r].id].user_id = "ani"
    /\ ItemsOf(reqs[r].id) # <<>>
    /\ reqs[r].code = 404
    /\ reqs[r].body = NoBody

\* every table of snapshot `pre` is what it was
WholeStoreAsIn(pre) ==
  /\ products = pre.products
  /\ product_sizes = pre.product_sizes
  /\ orders = pre.orders
  /\ order_items = pre.order_items
  /\ cart_items = pre.cart_items

\* the header carries no bearer token this server signed and that is still
\* valid, or the token names a user who is not in the store
BadCredentials(token) ==
  \/ token.kind # "valid"
  \/ token.id \notin DOMAIN users

\* the routes with authorize(['admin']) after authenticate
AdminOps == {"updateOrderStatus", "updateProduct"}

\* C12: on every protected route a request whose bearer token is missing,
\* malformed, invalid or expired, or names a user no longer in the store, is
\* answered 401, and on every admin-gated route an authenticated caller who
\* is not an admin is answered 403; in both cases the handler takes no step
\* and the store stays as it was when the request arrived.
C12_RejectedBeforeHandler ==
  \A r \in Req :
    LET q == reqs[r]
    IN q.pc # "idle" =>
         /\ BadCredentials(q.token) =>
              /\ q.pc \in {"authenticate", "done"}
              /\ q.pc = "done" => q.code = 401
              /\ WholeStoreAsIn(q.pre)
         /\ (~BadCredentials(q.token) /\ q.op \in AdminOps
               /\ users[q.token.id].role # "admin") =>
              /\ q.pc \in {"authenticate", "done"}
              /\ q.pc = "done" => q.code = 403
              /\ WholeStoreAsIn(q.pre)

\* C12 witness: with a pending order in the store, an expired token of the
\* admin on the status route is answered 401
C12_Witness ==
  \E r \in Req :
    /\ Answered(r, "updateOrderStatus")
    /\ reqs[r].token = [kind |-> "expired", id |-> "admin", role |-> "admin"]
    /\ reqs[r].code = 401
    /\ 1 \in DOMAIN orders
    /\ orders[1].status = "pending"

\* C13: once an order exists its total_price never changes, and once its
\* order items are persisted their product, size, quantity and unit price
\* never change: no step of updateProduct, updateOrderStatus, cancelOrder or
\* of any other request alters them; only the status does change.
C13_OrderContentsFrozen ==
  [][\A o \in DOMAIN orders :
       /\ o \in DOMAIN orders'
       /\ orders'[o].total_price = orders[o].total_price
       /\ orders'[o].user_id = orders[o].user_id
       /\ ItemsOf(o) # <<>> =>
            SelectSeq(order_items', LAMBDA it : it.order_id = o) = ItemsOf(o)]_vars

\* C13 witness: an order bought at the price of 10 was cancelled and its
\* product now costs 12; the order still carries 10 a unit
C13_Witness ==
  \E o \in DOMAIN orders :
    /\ orders[o].status = "cancelled"
    /\ ItemsOf(o) # <<>>
    /\ ItemsOf(o)[1].product_id = 1
    /\ ItemsOf(o)[1].price = 10
    /\ products[1].price = 12
    /\ orders[o].total_price = 10 * ItemsOf(o)[1].quantity

\* C14: getCartCheckout changes no cart item, order, order item or stock
\* row at any of its steps, and a createOrder answered 201 has removed or
\* changed no cart item of the ordering user: the cart is what it was when
\* the request arrived.
C14_CartUntouchedByCheckoutAndOrder ==
  \A r \in Req :
    LET q == reqs[r]
    IN /\ (q.op = "getCartCheckout" /\ q.pc # "idle") => WholeStoreAsIn(q.pre)
       /\ (q.op = "createOrder" /\ q.pc # "idle") =>
            SelectSeq(cart_items, LAMBDA row : row.user_id = q.caller)
              = SelectSeq(q.pre.cart_items, LAMBDA row : row.user_id = q.caller)

\* C14 witness: the user holds two units of the ordered product and size in
\* the cart, and the order is answered 201 with the cart row still there
C14_Witness ==
  \E r \in Req :
    /\ Answered(r, "createOrder")
    /\ reqs[r].code = 201
    /\ \E k \in 1..Len(cart_items) :
         /\ cart_items[k].user_id = reqs[r].caller
         /\ cart_items[k].product_id = reqs[r].items[1].product_id
         /\ cart_items[k].size = reqs[r].items[1].size
         /\ cart_items[k].quantity = 2

\* the line item names a product that is not in snapshot `pre`, or a size
\* of a product for which `pre` holds no size row
NamesAbsent(item, pre) ==
  \/ item.product_id \notin DOMAIN pre.products
  \/ item.size # Null /\ <<item.product_id, item.size>> \notin DOMAIN pre.product_sizes

\* C15: every operation that addresses an entity absent from the store is
\* answered 404: updateOrderStatus, cancelOrder and getOrderById for an
\* absent order, updateProduct for an absent product, addToCart for an absent
\* product or size, and createOrder whose first line item names a product or
\* a size that does not exist, which persists nothing.
C15_AbsentEntityAnswers404 ==
  \A r \in Req :
    LET q == reqs[r]
        passed == q.pc = "done" /\ q.code \notin {401, 403}
    IN /\ (passed /\ q.op \in {"cancelOrder", "getOrderById"}
             /\ q.id \notin DOMAIN q.pre.orders) => q.code = 404
       /\ (passed /\ q.op = "updateOrderStatus" /\ statusValidation(q.status)
             /\ q.id \notin DOMAIN q.pre.orders) => q.code = 404
       /\ (passed /\ q.op = "updateProduct" /\ productValidation(q.data)
             /\ q.id \notin DOMAIN q.pre.products) => q.code = 404
       /\ (passed /\ q.op = "addToCart" /\ addToCartValidation(q.item)
             /\ NamesAbsent(q.item, q.pre)) => q.code = 404
       /\ (passed /\ q.op = "createOrder" /\ orderValidation(q.items)
             /\ NamesAbsent(q.items[1], q.pre)) =>
            q.code = 404 /\ StoreAsIn(q.pre)

\* C16: a register request whose email or username belongs to a user stored
\* when the request arrives is answered 400; no two stored users ever share
\* an email or a username; every user that register created has role
\* customer.
C16_EmailAndUsernameUnique ==
  /\ \A r \in Req :
       LET q == reqs[r]
       IN (Answered(r, "register")
             /\ \E u \in DOMAIN q.pre.users :
                  \/ q.pre.users[u].email = q.email
                  \/ q.pre.users[u].username = q.username) => q.code = 400
  /\ \A u1, u2 \in DOMAIN users :
       u1 # u2 => /\ users[u1].email # users[u2].email
                  /\ users[u1].username # users[u2].username
  /\ \A u \in DOMAIN users \ {"ani", "budi", "admin"} : users[u].role = "customer"

\* C17: whenever a round trip a handler makes to the store fails, the
\* request is answered at once, with an error and never with 200 or 201 (at
\* once but for the header delete that follows a failed items insert); the
\* stock updates of createOrder and cancelOrder and the items select of
\* cancelOrder are among those round trips.
C17_FailedCallAnswersError ==
  \A r \in Req :
    LET q == reqs[r]
    IN q.failed # {} =>
         /\ q.pc \in {"done", "co_rollback"}
         /\ q.pc = "done" => q.code \notin {200, 201}

\* the stock row a line item names holds n units in snapshot `pre`
StockIn(pre, item) ==
  IF item.size # Null THEN pre.product_sizes[<<item.product_id, item.size>>]
  ELSE pre.products[item.product_id].stock

\* C18: two createOrder requests in flight together for the same stock row,
\* each asking for no more than the row held when the request arrived but
\* together for more, can both be answered 201; when they are, and no other
\* request is under way, the row is oversold: the persisted orders reserve
\* more units of it than it held, and its count is below zero.
C18_ConcurrentOrdersOversell ==
  \A r1, r2 \in Req :
    LET q1 == reqs[r1]
        q2 == reqs[r2]
    IN (/\ r1 # r2
        /\ Answered(r1, "createOrder") /\ q1.code = 201
        /\ Answered(r2, "createOrder") /\ q2.code = 201
        /\ q1.items = q2.items
        /\ StockIn(q1.pre, q1.items[1]) = StockIn(q2.pre, q2.items[1])
        /\ q1.items[1].quantity <= StockIn(q1.pre, q1.items[1])
        /\ q1.items[1].quantity + q2.items[1].quantity > StockIn(q1.pre, q1.items[1])
        /\ \A r \in Req : reqs[r].pc \in {"idle", "done"}) =>
         LET item == q1.items[1]
             reserved == Units(order_items, item.product_id, item.size)
         IN /\ reserved > StockIn(q1.pre, item)
            /\ StockOf(item) = StockIn(q1.pre, item) - reserved
            /\ StockOf(item) < 0

\* C18 witness: the size row held 2; two requests for 2 units each both
\* found 2 in stock, both were answered 201, and the row stands at -2 with
\* two orders persisted
C18_Witness ==
  \E r1, r2 \in Req :
    /\ r1 # r2
    /\ Answered(r1, "createOrder") /\ reqs[r1].code = 201
    /\ Answered(r2, "createOrder") /\ reqs[r2].code = 201
    /\ reqs[r1].items[1].size = "M" /\ reqs[r2].items[1].size = "M"
    /\ reqs[r1].pre.product_sizes[<<1, "M">>] = 2
    /\ reqs[r2].pre.product_sizes[<<1, "M">>] = 2
    /\ Cardinality(DOMAIN orders) = 2
    /\ Units(order_items, 1, "M") = 4
    /\ product_sizes[<<1, "M">>] = -2

\* C19: order items are created atomically with their order: in every state,
\* each of which a request in flight (getOrderById, cancelOrder, ...) may read,
\* every order header has its order items persisted, and a getOrderById
\* answered 200 carries the items of the order.
C19_HeaderNeverWithoutItems ==
  /\ \A o \in DOMAIN orders : ItemsOf(o) # <<>>
  /\ \A r \in Req :
       (Answered(r, "getOrderById") /\ reqs[r].code = 200) =>
         reqs[r].body.items # <<>>

\* C20: when the items insert of createOrder fails after the header was
\* written, the request goes on only to delete that header and is answered
\* 500, and no stock row changes; if the delete succeeds, neither the header
\* nor any item of the failed order is in the store.
C20_FailedItemsInsertRollsBack ==
  \A r \in Req :
    LET q == reqs[r]
    IN "co_insert_items" \in q.failed =>
         /\ q.pc \in {"co_rollback", "done"}
         /\ q.pc = "done" => q.code = 500
         /\ StockAsIn(q.pre)
         /\ ItemsOf(q.newOrder) = <<>>
         /\ (q.pc = "done" /\ "co_rollback" \notin q.failed) =>
              /\ q.newOrder \notin DOMAIN orders
              /\ orders = q.pre.orders
              /\ order_items = q.pre.order_items

\* C20 witness: the header of order 1 was written, the items insert failed,
\* the delete went through: 500, no order, no item, stock as before
C20_Witness ==
  \E r \in Req :
    /\ Answered(r, "createOrder")
    /\ reqs[r].failed = {"co_insert_items"}
    /\ reqs[r].newOrder = 1
    /\ Len(reqs[r].verifiedItems) = 2
    /\ reqs[r].code = 500
    /\ orders = <<>>
    /\ order_items = <<>>
    /\ nextOrderId = 2
    /\ StockAsIn(reqs[r].pre)

\* the units that passes 1..n of a loop over `items` moved on the stock row
\* <<p, size>> (size = Null: the general stock of p), the passes in `skip`
\* having moved none
RECURSIVE UnitsDone(_, _, _, _, _)
UnitsDone(items, n, skip, p, size) ==
  IF n = 0 THEN 0
  ELSE (IF n \notin skip /\ items[n].product_id = p /\ items[n].size = size
          THEN items[n].quantity ELSE 0) + UnitsDone(items, n - 1, skip, p, size)

\* the passes of its stock loop that request q has been through
Passes(q, items) == IF q.pc = "done" THEN Len(items) ELSE q.i - 1

\* C21: if a stock decrement of createOrder fails after the header and the
\* items were persisted, nothing is rolled back: the order stays persisted in
\* status pending with all its items, and the stock row of the failed
\* decrement keeps its undecremented value (every row is down by exactly the
\* decrements that succeeded).
C21_FailedDecrementNoRollback ==
  \A r \in Req :
    LET q == reqs[r]
        n == Passes(q, q.verifiedItems)
    IN (q.op = "createOrder" /\ "co_stock" \in q.failed) =>
         /\ q.newOrder \in DOMAIN orders
         /\ orders[q.newOrder].status = "pending"
         /\ Len(ItemsOf(q.newOrder)) = Len(q.items)
         /\ \A k \in 1..Len(q.items) :
              /\ ItemsOf(q.newOrder)[k].product_id = q.items[k].product_id
              /\ ItemsOf(q.newOrder)[k].size = q.items[k].size
              /\ ItemsOf(q.newOrder)[k].quantity = q.items[k].quantity
         /\ \A p \in DOMAIN products :
              products[p].stock =
                q.pre.products[p].stock - UnitsDone(q.items, n, q.failedAt, p, Null)
         /\ \A row \in DOMAIN product_sizes :
              product_sizes[row] =
                q.pre.product_sizes[row]
                  - UnitsDone(q.items, n, q.failedAt, row[1], row[2])

\* C21 witness: an order of a general and a size M unit; the decrement of the
\* size row failed, the row still holds what it held, the order is pending
\* with both items, and the request was answered
C21_Witness ==
  \E r \in Req :
    /\ Answered(r, "createOrder")
    /\ reqs[r].failed = {"co_stock"}
    /\ reqs[r].failedAt = {2}
    /\ Len(reqs[r].items) = 2
    /\ reqs[r].items[1].size = Null
    /\ reqs[r].items[2].size = "M"
    /\ product_sizes[<<1, "M">>] = reqs[r].pre.product_sizes[<<1, "M">>]
    /\ products[1].stock = reqs[r].pre.products[1].stock - 1
    /\ orders[reqs[r].newOrder].status = "pending"
    /\ Len(ItemsOf(reqs[r].newOrder)) = 2

\* C22: if the read of the order's items or the increment of a stock row
\* fails during cancelOrder, no compensating action is taken: the order stays
\* cancelled, cancelOrder answers 200, and stock is under-restored (every row
\* is up by exactly the increments that succeeded, so a row of the order's
\* items is below what a full release would make it).
C22_FailedReleaseNoCompensation ==
  \A r \in Req :
    LET q == reqs[r]
        n == Passes(q, q.orderItems)
    IN (q.op = "cancelOrder" /\ q.failed \cap {"cancel_items", "cancel_stock"} # {}) =>
         /\ orders[q.id].status = "cancelled"
         /\ q.pc = "done" => q.code = 200
         /\ \A p \in DOMAIN products :
              products[p].stock =
                q.pre.products[p].stock + UnitsDone(q.orderItems, n, q.failedAt, p, Null)
         /\ \A row \in DOMAIN product_sizes :
              product_sizes[row] =
                q.pre.product_sizes[row]
                  + UnitsDone(q.orderItems, n, q.failedAt, row[1], row[2])
         /\ (q.pc = "done" /\ ItemsOf(q.id) # <<>>) => ~Released(q.pre, q.id)

\* C22 witness: the order holds two general units of product 1; the first
\* increment failed, the second went through; the order is cancelled, the
\* answer is 200 and the row is one unit short of the full release
C22_Witness ==
  \E r \in Req :
    /\ Answered(r, "cancelOrder")
    /\ reqs[r].code = 200
    /\ reqs[r].failed = {"cancel_stock"}
    /\ reqs[r].failedAt = {1}
    /\ Len(reqs[r].orderItems) = 2
    /\ Units(ItemsOf(reqs[r].id), 1, Null) = 2
    /\ orders[reqs[r].id].status = "cancelled"
    /\ products[1].stock = reqs[r].pre.products[1].stock + 1

\* the rows of `cart` that hold user u's item of the product and size that
\* `item` names, an absent size being a size like any other
PairIn(cart, u, item) ==
  SelectSeq(cart, LAMBDA row :
    row.user_id = u /\ row.product_id = item.product_id /\ row.size = item.size)

\* `cart` with the quantity of the row item_id set to n
WithQuantity(cart, item_id, n) ==
  [k \in 1..Len(cart) |->
     IF cart[k].item_id = item_id THEN [cart[k] EXCEPT !.quantity = n] ELSE cart[k]]

\* C23: requests handled one at a time, addToCart for a (product, size) that
\* the caller's cart already holds checks the merged total, existing quantity
\* plus added quantity, against the stock row: it answers 400 and leaves the
\* cart unchanged when the total exceeds the row's value, and otherwise
\* answers 200 with the item's quantity set to that total and no other change
\* to the cart.
C23_MergedTotalChecked ==
  \A r \in Req :
    LET q == reqs[r]
        held == PairIn(q.pre.cart_items, q.caller, q.item)
    IN (Answered(r, "addToCart") /\ ~NamesAbsent(q.item, q.pre) /\ Len(held) = 1) =>
         LET total == held[1].quantity + q.item.quantity
         IN IF total > StockIn(q.pre, q.item)
              THEN q.code = 400 /\ cart_items = q.pre.cart_items
              ELSE /\ q.code = 200
                   /\ cart_items = WithQuantity(q.pre.cart_items, held[1].item_id, total)

\* C24: requests handled one at a time, a createOrder answered 201 has taken
\* from no stock row more units than the row held when the request arrived,
\* also when several of its line items name the same product and size: the
\* units those items ask for together are within the row, and the row is not
\* negative afterwards.
C24_DuplicateItemsCheckedTogether ==
  \A r \in Req :
    LET q == reqs[r]
    IN (Answered(r, "createOrder") /\ q.code = 201) =>
         /\ \A p \in DOMAIN products :
              Units(q.items, p, Null) > 0 =>
                /\ Units(q.items, p, Null) <= q.pre.products[p].stock
                /\ products[p].stock >= 0
         /\ \A row \in DOMAIN product_sizes :
              Units(q.items, row[1], row[2]) > 0 =>
                /\ Units(q.items, row[1], row[2]) <= q.pre.product_sizes[row]
                /\ product_sizes[row] >= 0

\* request r is a cancelOrder of order o that is in, or has been through,
\* the loop that increments stock
Restores(r, o) ==
  /\ reqs[r].op = "cancelOrder" /\ reqs[r].id = o
  /\ reqs[r].pc \in {"cancel_stock", "done"}
  /\ reqs[r].orderItems # <<>>

\* C25: under every interleaving of cancelOrder requests for the same order
\* the stock of the order's line items is restored at most once: at most one
\* of the requests performs the increments, and once no request is under way
\* no stock row is above the value it had before the order was created.
C25_RestoredAtMostOnce ==
  /\ \A r1, r2 \in Req, o \in DOMAIN orders :
       (Restores(r1, o) /\ Restores(r2, o)) => r1 = r2
  /\ (\A r \in Req : reqs[r].pc \in {"idle", "done"}) =>
       \A o \in DOMAIN orders :
         /\ \A p \in DOMAIN products :
              products[p].stock <= hist.baseline[o].products[p].stock
         /\ \A row \in DOMAIN product_sizes :
              product_sizes[row] <= hist.baseline[o].product_sizes[row]

\* the stored users with role admin
Admins == {u \in DOMAIN users : users[u].role = "admin"}

\* C26: the store, which starts with an admin, holds at least one admin after
\* any sequence and any interleaving of updateUserRole requests; a caller
\* who is not an admin is answered 403, and an admin naming their own id is
\* answered 400.
C26_AlwaysAnAdmin ==
  /\ Admins # {}
  /\ \A r \in Req :
       LET q == reqs[r]
       IN (Answered(r, "updateUserRole") /\ q.user # NoUser) =>
            /\ q.user.role # "admin" => q.code = 403
            /\ (q.user.role = "admin" /\ roleValidation(q.role)
                  /\ q.target = q.user.user_id) => q.code = 400

\* C30: authorization uses the role stored for the user when the request is
\* authenticated, not the role the token carries: requests handled one after
\* another, a request to an admin-gated route with a valid token of a stored
\* user is answered 403 exactly when the user's stored role is not admin, so
\* a token issued to an admin since made a customer is refused, and a token
\* of a customer since made an admin gets past the gate (never 401 or 403).
C30_StoredRoleDecides ==
  \A r \in Req :
    LET q == reqs[r]
    IN (q.pc = "done" /\ q.op \in AdminGated /\ q.token.kind = "valid"
          /\ q.token.id \in DOMAIN q.pre.users) =>
         /\ q.user.role = q.pre.users[q.token.id].role
         /\ IF q.pre.users[q.token.id].role = "admin"
              THEN q.code \notin {401, 403}
              ELSE q.code = 403

\* C30 witness: the first admin was made a customer by an admin they had
\* appointed; their token, which says admin, is then answered 403 on the
\* role route
C30_Witness ==
  \E r \in Req :
    /\ Answered(r, "updateUserRole")
    /\ reqs[r].token = [kind |-> "valid", id |-> "admin", role |-> "admin"]
    /\ reqs[r].pre.users["admin"].role = "customer"
    /\ reqs[r].pre.users["ani"].role = "admin"
    /\ reqs[r].code = 403

\* C27: in every reachable state the category_id of every product is the id
\* of a stored category, whatever createProduct, updateProduct and
\* deleteCategory requests have run or are in flight together.
C27_ProductCategoryExists ==
  \A p \in DOMAIN product_category : product_category[p] \in categories

\* C28: a user's cart holds at most one cart item per (product, size) pair,
\* an absent size counting as one value, after any sequence and any
\* interleaving of the user's addToCart requests.
C28_OneCartItemPerPair ==
  \A j, k \in 1..Len(cart_items) :
    (/\ cart_items[j].user_id = cart_items[k].user_id
     /\ cart_items[j].product_id = cart_items[k].product_id
     /\ cart_items[j].size = cart_items[k].size) => j = k

\* the rows of `cart` that are not user u's
OthersRows(cart, u) == SelectSeq(cart, LAMBDA row : row.user_id # u)

\* C29: updateCartItem, removeFromCart and clearCart of one user never change
\* or delete a cart item of another user, at any of their steps; naming
\* another user's item id is answered 404 with the cart unchanged, and
\* clearCart is answered 200 and removes exactly the caller's items.
C29_CartOpsTouchOnlyOwnItems ==
  \A r \in Req :
    LET q == reqs[r]
        others == \E k \in 1..Len(q.pre.cart_items) :
                    /\ q.pre.cart_items[k].item_id = q.id
                    /\ q.pre.cart_items[k].user_id # q.caller
    IN (q.op \in {"updateCartItem", "removeFromCart", "clearCart"} /\ q.pc # "idle") =>
         /\ OthersRows(cart_items, q.caller) = OthersRows(q.pre.cart_items, q.caller)
         /\ (q.pc = "done" /\ others
               /\ \/ q.op = "removeFromCart"
                  \/ q.op = "updateCartItem" /\ updateCartValidation(q.quantity)) =>
              q.code = 404 /\ cart_items = q.pre.cart_items
         /\ (q.pc = "done" /\ q.op = "clearCart") =>
              q.code = 200 /\ cart_items = OthersRows(q.pre.cart_items, q.caller)

\* C29 witness: both users hold a cart item; budi names ani's item in
\* updateCartItem with a quantity in stock and is answered 404, the item
\* still holding its two units
C29_Witness ==
  \E r \in Req, j, k \in 1..Len(cart_items) :
    /\ Answered(r, "updateCartItem")
    /\ reqs[r].caller = "budi"
    /\ reqs[r].quantity = 1
    /\ cart_items[j].user_id = "ani"
    /\ cart_items[j].item_id = reqs[r].id
    /\ cart_items[j].quantity = 2
    /\ cart_items[k].user_id = "budi"
    /\ reqs[r].code = 404

====
